---- MODULE Spec2Model ----
(***************************************************************************)
(* The rule registry of common/data/matchers.js: the rule-spec table       *)
(* `matchers` (group -> list of rule specs) is regrouped at load time into *)
(* window.matchers[target][group][name].                                   *)
(*                                                                         *)
(* A JavaScript object is modelled as an ordered map: a sequence of        *)
(* [key, value] entries with distinct keys, in insertion order (no key of  *)
(* the program is an integer-like string, so insertion order is the       *)
(* enumeration order).  A string is modelled as the sequence of its        *)
(* characters; a RegExp object by its identity.                            *)
(***************************************************************************)
EXTENDS Integers, Sequences, FiniteSets, TLC

\* ------------------------------------------------------------------ bounds
MaxSpecs == 2      \* rule specs in the whole table
MaxGroups == 2     \* groups (keys of `matchers`)
MaxTargets == 2    \* length of one spec's `targets` list
MaxBuilds == 2     \* times the registry build block is run

\* ------------------------------------------------------------- characters
UpperCase ==
  << "A", "B", "C", "D", "E", "F", "G", "H", "I", "J", "K", "L", "M",
     "N", "O", "P", "Q", "R", "S", "T", "U", "V", "W", "X", "Y", "Z" >>
LowerCase ==
  << "a", "b", "c", "d", "e", "f", "g", "h", "i", "j", "k", "l", "m",
     "n", "o", "p", "q", "r", "s", "t", "u", "v", "w", "x", "y", "z" >>
Digits == << "0", "1", "2", "3", "4", "5", "6", "7", "8", "9" >>

IndexOf(seq, c) == CHOOSE i \in 1..Len(seq) : seq[i] = c
InSeq(seq, c) == \E i \in 1..Len(seq) : seq[i] = c

\* UTF-16 code units of the non-ASCII characters of the names below
\* (a character outside ASCII is written uXXXX, its code unit in hexadecimal)
NonAsciiCode ==
  [ uAC00 |-> 44032,
    uAC10 |-> 44048,
    uAC74 |-> 44148,
    uAC8C |-> 44172,
    uACA9 |-> 44201,
    uACF5 |-> 44277,
    uACFC |-> 44284,
    uB300 |-> 45824,
    uB370 |-> 45936,
    uB3C4 |-> 46020,
    uB825 |-> 47141,
    uBAA8 |-> 47784,
    uBBF8 |-> 48120,
    uBC0D |-> 48141,
    uBC29 |-> 48169,
    uC0C1 |-> 49345,
    uC11D |-> 49437,
    uC120 |-> 49440,
    uC131 |-> 49457,
    uC18C |-> 49548,
    uC18D |-> 49549,
    uC2B9 |-> 49849,
    uC2DC |-> 49884,
    uC5B4 |-> 50612,
    uC5D0 |-> 50640,
    uC774 |-> 51060,
    uC778 |-> 51064,
    uC77C |-> 51068,
    uC785 |-> 51077,
    uC7A5 |-> 51109,
    uC801 |-> 51201,
    uC815 |-> 51221,
    uC81C |-> 51228,
    uC870 |-> 51312,
    uC911 |-> 51473,
    uC99D |-> 51613,
    uC9C0 |-> 51648,
    uCCB4 |-> 52404,
    uD0C0 |-> 53440,
    uD0DC |-> 53468,
    uD0ED |-> 53485,
    uD134 |-> 53556,
    uD300 |-> 54016,
    uD3B8 |-> 54200,
    uD55C |-> 54620,
    uD574 |-> 54644,
    uD5D8 |-> 54744,
    uD6A8 |-> 54952 ]

\* UTF-16 code unit of a character (the order String.prototype.sort uses)
CharCode(c) ==
  IF InSeq(UpperCase, c) THEN 64 + IndexOf(UpperCase, c)
  ELSE IF InSeq(LowerCase, c) THEN 96 + IndexOf(LowerCase, c)
  ELSE IF InSeq(Digits, c) THEN 47 + IndexOf(Digits, c)
  ELSE IF c \in DOMAIN NonAsciiCode THEN NonAsciiCode[c]
  ELSE CASE c = " " -> 32
         [] c = "%" -> 37
         [] c = "-" -> 45
         [] c = ":" -> 58

\* lower-case form of a character (the i flag of a RegExp)
ToLower(c) ==
  IF InSeq(UpperCase, c) THEN LowerCase[IndexOf(UpperCase, c)] ELSE c

\* a < b in the order of Array.prototype.sort() without a comparator:
\* strings compared by code units, a proper prefix first
RECURSIVE StrLess(_, _)
StrLess(a, b) ==
  IF b = <<>> THEN FALSE
  ELSE IF a = <<>> THEN TRUE
  ELSE IF a[1] # b[1] THEN CharCode(a[1]) < CharCode(b[1])
  ELSE StrLess(Tail(a), Tail(b))

\* does string s have string p at (1-based) position i
HasAt(s, p, i) ==
  /\ i + Len(p) - 1 <= Len(s)
  /\ \A j \in 1..Len(p) : s[i + j - 1] = p[j]

\* -------------------------------------------------------- ordered objects
Keys(obj) == [i \in 1..Len(obj) |-> obj[i].key]
KeySet(obj) == {obj[i].key : i \in 1..Len(obj)}
Has(obj, k) == k \in KeySet(obj)
Get(obj, k) == obj[CHOOSE i \in 1..Len(obj) : obj[i].key = k].value
\* obj[k] = v: an existing key keeps its place, a new key goes last
Put(obj, k, v) ==
  IF Has(obj, k)
    THEN [i \in 1..Len(obj) |->
            IF obj[i].key = k THEN [key |-> k, value |-> v] ELSE obj[i]]
    ELSE Append(obj, [key |-> k, value |-> v])

RECURSIVE Flatten(_)
Flatten(ss) == IF ss = <<>> THEN <<>> ELSE Head(ss) \o Flatten(Tail(ss))

\* ------------------------------------------------------- program constants
includeOldFilters == FALSE
alphabeticalOrder == TRUE

\* the first two targets are declared in the other order
allTargetsSpecialFirst ==
  << "special", "captain", "superSpecialCriteria", "superSpecial", "swap",
     "sailor", "limit", "potential", "support" >>

allTargets ==
  << "captain", "special", "superSpecialCriteria", "superSpecial", "swap",
     "sailor", "limit", "potential", "support" >>

\* the characters of a target id ("rumble" is a target no declaration names)
TargetChars ==
  [ captain |-> <<"c","a","p","t","a","i","n">>,
    special |-> <<"s","p","e","c","i","a","l">>,
    superSpecialCriteria |->
      <<"s","u","p","e","r","S","p","e","c","i","a","l",
        "C","r","i","t","e","r","i","a">>,
    superSpecial |-> <<"s","u","p","e","r","S","p","e","c","i","a","l">>,
    swap |-> <<"s","w","a","p">>,
    sailor |-> <<"s","a","i","l","o","r">>,
    limit |-> <<"l","i","m","i","t">>,
    potential |-> <<"p","o","t","e","n","t","i","a","l">>,
    support |-> <<"s","u","p","p","o","r","t">>,
    rumble |-> <<"r","u","m","b","l","e">> ]

Placeholder == <<"%","t","a","r","g","e","t","%">>
SuperSpecialsLabel ==
  <<"s","u","p","e","r"," ","s","p","e","c","i","a","l","s">>

\* /^old/i.test(name)
IsOldName(name) ==
  /\ Len(name) >= 3
  /\ ToLower(name[1]) = "o"
  /\ ToLower(name[2]) = "l"
  /\ ToLower(name[3]) = "d"

\* name.replace(/%target%/g, by): every occurrence, scanning left to right
RECURSIVE ReplaceFrom(_, _, _)
ReplaceFrom(name, by, i) ==
  IF i > Len(name) THEN <<>>
  ELSE IF HasAt(name, Placeholder, i)
    THEN by \o ReplaceFrom(name, by, i + Len(Placeholder))
    ELSE <<name[i]>> \o ReplaceFrom(name, by, i + 1)

ReplaceTarget(name, by) == ReplaceFrom(name, by, 1)

\* every target is pluralised with "s", superSpecial too
newNamePlainPlural(name, target) ==
  ReplaceTarget(name, TargetChars[target] \o <<"s">>)

\* the `newName` of the build loop
newName(name, target) ==
  IF target = "superSpecial"
    THEN ReplaceTarget(name, SuperSpecialsLabel)
    ELSE ReplaceTarget(name, TargetChars[target] \o <<"s">>)

\* Array.prototype.sort() on an array of distinct strings
RECURSIVE SortStrings(_)
SortStrings(s) ==
  IF s = <<>> THEN <<>>
  ELSE LET m == CHOOSE i \in 1..Len(s) :
                  \A j \in 1..Len(s) : ~StrLess(s[j], s[i])
       IN  <<s[m]>> \o
           SortStrings([k \in 1..(Len(s) - 1) |-> IF k < m THEN s[k] ELSE s[k + 1]])

\* keys.reduce(function (result, key) { result[key] = obj[key]; ... }, {})
RECURSIVE ReduceInto(_, _, _)
ReduceInto(result, keys, obj) ==
  IF keys = <<>> THEN result
  ELSE ReduceInto(Put(result, Head(keys), Get(obj, Head(keys))), Tail(keys), obj)

\* the keys are copied in the order they have: no .sort()
sortObjKeepOrder(obj) == ReduceInto(<<>>, Keys(obj), obj)

\* the keys taken from the last of the sorted names to the first
sortObjLastFirst(obj) ==
  LET ks == SortStrings(Keys(obj))
  IN  ReduceInto(<<>>, [i \in 1..Len(ks) |-> ks[Len(ks) + 1 - i]], obj)

sortObj(obj) == ReduceInto(<<>>, SortStrings(Keys(obj)), obj)

\* [...submatchers]: a new array with the same elements in the same order
SpreadArray(arr) == [i \in 1..Len(arr) |-> arr[i]]

\* the copy gets the target as its group: { target: target, group: target, ... }
matcherCopyGroupSlip(matcher, target, group, name) ==
  [f \in (DOMAIN matcher) \cup {"target", "group", "name"} |->
     CASE f = "target" -> target
       [] f = "group" -> target
       [] f = "name" -> name
       [] f = "submatchers" -> SpreadArray(matcher.submatchers)
       [] OTHER -> matcher[f]]

\* the two spreads in the other order: a field of the spec wins over the
\* field of the copy
matcherCopySpecWins(matcher, target, group, name) ==
  LET spread ==
        [f \in (DOMAIN matcher) \cup {"target", "group", "name"} |->
           IF f \in DOMAIN matcher THEN matcher[f]
           ELSE CASE f = "target" -> target
                  [] f = "group" -> group
                  [] f = "name" -> name]
  IN  IF "submatchers" \in DOMAIN spread
        THEN [spread EXCEPT !.submatchers = SpreadArray(spread.submatchers)]
        ELSE spread

\* { ...matcher, ...{ target, group, name } } and the copy of its submatchers
matcherCopy(matcher, target, group, name) ==
  LET spread ==
        [f \in (DOMAIN matcher) \cup {"target", "group", "name"} |->
           CASE f = "target" -> target
             [] f = "group" -> group
             [] f = "name" -> name
             [] OTHER -> matcher[f]]
  IN  IF "submatchers" \in DOMAIN spread
        THEN [spread EXCEPT !.submatchers = SpreadArray(spread.submatchers)]
        ELSE spread

\* !includeOldFilters && /^old/i.test(matcher.name): the spec is left out
IsSkipped(matcher) == ~includeOldFilters /\ IsOldName(matcher.name)

\* the object is made anew even when it is there: obj[key] = {}
EnsureKeyAnew(obj, key) == Put(obj, key, <<>>)

\* if (!obj[key]) obj[key] = {}
EnsureKey(obj, key) == IF ~Has(obj, key) THEN Put(obj, key, <<>>) ELSE obj

\* the test looks at the group, not at the name: any rule of the group counts
IsDuplicateInGroup(rules, name) == rules # <<>>

\* if (window.matchers[target][group][newName]): a rule is already stored there
IsDuplicate(rules, name) == Has(rules, name)

\* the rule is stored only under a free name: the first writer wins
StoreRuleKeepFirst(rules, name, copy) ==
  IF Has(rules, name) THEN rules ELSE Put(rules, name, copy)

\* window.matchers[target][group][newName] = matcherCopy
StoreRule(rules, name, copy) == Put(rules, name, copy)

\* the copy takes the elements out of the spec's array: submatchers.splice(0)
matcherAfterCopySpliced(matcher) ==
  IF "submatchers" \in DOMAIN matcher
    THEN [matcher EXCEPT !.submatchers = <<>>] ELSE matcher

\* the rule spec after it was copied: spread and [...] only read their source
matcherAfterCopy(matcher) == matcher

\* the declared targets get no object of their own before the build
DeclareNoTarget(obj, targets) == obj

\* window.matchers = {}; for (var target of allTargets) window.matchers[target] = {}
RECURSIVE DeclareTargets(_, _)
DeclareTargets(obj, targets) ==
  IF targets = <<>> THEN obj
  ELSE DeclareTargets(Put(obj, Head(targets), <<>>), Tail(targets))

EmptyRegistry == DeclareTargets(<<>>, allTargets)

\* the (group, matcher, target) iterations of the three nested build loops
BuildIterations(ms) ==
  Flatten([gi \in 1..Len(ms) |->
    Flatten([mi \in 1..Len(ms[gi].value) |->
      [ti \in 1..Len(ms[gi].value[mi].targets) |-> <<gi, mi, ti>>]])])

\* the (target, group) iterations of the two nested sort loops
SortIterations(reg) ==
  Flatten([ti \in 1..Len(reg) |->
    [gi \in 1..Len(reg[ti].value) |-> <<reg[ti].key, reg[ti].value[gi].key>>]])

\* window.matchers[target]: undefined for a key the object does not have
Lookup(reg, target) ==
  IF Has(reg, target)
    THEN [target |-> target, defined |-> TRUE, groups |-> Get(reg, target)]
    ELSE [target |-> target, defined |-> FALSE]

\* ------------------------------------------------------------------ inputs
GroupNames == << "damage", "slots", "others", "misc" >>

\* targets a spec may name: two declared ones and one no declaration names
TargetSamples == << "captain", "superSpecial", "rumble" >>

NameSamples ==
  { <<"b">>,
    <<"B">>,
    <<"o","L","d">>,
    <<"%","t","a","r","g","e","t","%","-","%","t","a","r","g","e","t","%">> }

SubmatcherSamples == { <<"number", "option">> }

RECURSIVE SeqsUpTo(_, _)
SeqsUpTo(S, n) ==
  IF n = 0 THEN {<<>>}
  ELSE LET shorter == SeqsUpTo(S, n - 1)
       IN  shorter \cup {Append(s, x) : s \in {t \in shorter : Len(t) = n - 1}, x \in S}

\* the sub-lists of s with the elements at the index set I, in order
RECURSIVE Pick(_, _)
Pick(s, I) ==
  IF I = {} THEN <<>>
  ELSE LET i == CHOOSE x \in I : \A y \in I : x <= y
       IN  <<s[i]>> \o Pick(s, I \ {i})

\* `targets` lists: distinct targets, possibly none (as in the specs of the
\* table); the order within one list is that of TargetSamples
TargetLists ==
  { Pick(TargetSamples, I) :
      I \in {J \in SUBSET (1..Len(TargetSamples)) :
               Cardinality(J) <= MaxTargets} }

\* a rule spec without its pattern: { name, targets [, submatchers] }
SpecSamples ==
  [name : NameSamples, targets : TargetLists]
  \cup [name : NameSamples, targets : TargetLists, submatchers : SubmatcherSamples]

RECURSIVE Sum(_)
Sum(ns) == IF ns = <<>> THEN 0 ELSE Head(ns) + Sum(Tail(ns))

\* the number of rule specs of each group, in group order
GroupSizes == {ns \in SeqsUpTo(0..MaxSpecs, MaxGroups) : Sum(ns) <= MaxSpecs}

\* each RegExp literal of the table is an object of its own
WithRegex(spec, gi, mi) ==
  [f \in (DOMAIN spec) \cup {"regex"} |->
     IF f = "regex" THEN <<gi, mi>> ELSE spec[f]]

\* the table with sizes[gi] specs in group gi, its specs taken from flat in order
TableOf(sizes, flat) ==
  [gi \in 1..Len(sizes) |->
     [key |-> GroupNames[gi],
      value |-> [mi \in 1..sizes[gi] |->
                   WithRegex(flat[Sum(SubSeq(sizes, 1, gi - 1)) + mi], gi, mi)]]]

\* ------------------------------------------------- the table as shipped
\* the rule specs of lines 2005-2104, consecutive in group "\ub370\ubbf8\uc9c0 \ubc0f \ub2a5\ub825\uce58 \uac15\ud654"
ShippedDamageSpecs ==
  <<
    \* lines 2005-2016: name "old \ubc29\uc5b4\ub825 \uac10\uc18c\uc0c1\ud0dc \ub300\uc0c1 \uacf5\uaca9\ub825 \uc0c1\uc2b9"
     [name |-> <<"o","l","d"," ","uBC29","uC5B4","uB825"," ","uAC10","uC18C","uC0C1","uD0DC"," ","uB300","uC0C1"," ","uACF5","uACA9","uB825"," ","uC0C1","uC2B9">>,
       targets |-> <<"captain", "special", "superSpecial", "swap", "sailor", "support">>],
    \* lines 2018-2030: name "\uc0c1\ud0dc\uc774\uc0c1\uc2dc \uacf5\uaca9\ub825 \uc99d\uac00: \ubc29\uc5b4\ub825 \uc0c1\uc2b9"
     [name |-> <<"uC0C1","uD0DC","uC774","uC0C1","uC2DC"," ","uACF5","uACA9","uB825"," ","uC99D","uAC00",":"," ","uBC29","uC5B4","uB825"," ","uC0C1","uC2B9">>,
       targets |-> <<"captain">>,
       submatchers |-> <<"number">>],
    \* lines 2032-2057: name "\uc0c1\ud0dc\uc774\uc0c1\uc2dc \uacf5\uaca9\ub825 \uc99d\uac00: \ubc29\uc5b4\ub825 \uc0c1\uc2b9"
     [name |-> <<"uC0C1","uD0DC","uC774","uC0C1","uC2DC"," ","uACF5","uACA9","uB825"," ","uC99D","uAC00",":"," ","uBC29","uC5B4","uB825"," ","uC0C1","uC2B9">>,
       targets |-> <<"special", "superSpecial", "swap", "support">>,
       submatchers |-> <<"number", "number", "option">>],
    \* lines 2059-2070: name "old \ubc29\uc5b4\ub825 \uc0c1\uc2b9\uc911\uc778 \uc801\uc5d0\uac8c \ub370\ubbf8\uc9c0 \uc99d\uac00"
     [name |-> <<"o","l","d"," ","uBC29","uC5B4","uB825"," ","uC0C1","uC2B9","uC911","uC778"," ","uC801","uC5D0","uAC8C"," ","uB370","uBBF8","uC9C0"," ","uC99D","uAC00">>,
       targets |-> <<"captain", "special", "superSpecial", "swap", "sailor", "support">>],
    \* lines 2072-2085: name "\uc0c1\ud0dc\uc774\uc0c1\uc2dc \uacf5\uaca9\ub825 \uc99d\uac00: \ubc29\uc5b4\ub825 \uc0c1\uc2b9"
     [name |-> <<"uC0C1","uD0DC","uC774","uC0C1","uC2DC"," ","uACF5","uACA9","uB825"," ","uC99D","uAC00",":"," ","uBC29","uC5B4","uB825"," ","uC0C1","uC2B9">>,
       targets |-> <<>>,
       submatchers |-> <<"number">>],
    \* lines 2087-2104: name "\uc0c1\ud0dc\uc774\uc0c1\uc2dc \uacf5\uaca9\ub825 \uc99d\uac00: \ubc29\uc5b4\ub825 \uc0c1\uc2b9"
     [name |-> <<"uC0C1","uD0DC","uC774","uC0C1","uC2DC"," ","uACF5","uACA9","uB825"," ","uC99D","uAC00",":"," ","uBC29","uC5B4","uB825"," ","uC0C1","uC2B9">>,
       targets |-> <<"special">>,
       submatchers |-> <<"number", "number">>]
  >>

\* the rule specs of lines 3571-3703, consecutive in group "\ub2a5\ub825 \ubc1c\ub3d9 \uc870\uac74"
ShippedConditionSpecs ==
  <<
    \* lines 3571-3575: name "\ud134 \uc81c\ud55c \ud6a8\uacfc"
     [name |-> <<"uD134"," ","uC81C","uD55C"," ","uD6A8","uACFC">>,
       targets |-> <<"captain">>],
    \* lines 3577-3582: name "Old HP-based ATK %target%"
     [name |-> <<"O","l","d"," ","H","P","-","b","a","s","e","d"," ","A","T","K"," ","%","t","a","r","g","e","t","%">>,
       targets |-> <<"captain">>],
    \* lines 3584-3592: name "\uc870\uac74: \uc77c\uc815 \uccb4\ub825"
     [name |-> <<"uC870","uAC74",":"," ","uC77C","uC815"," ","uCCB4","uB825">>,
       targets |-> <<"captain">>],
    \* lines 3594-3598: name "\uc870\uac74: \ud300 \ud3b8\uc131"
     [name |-> <<"uC870","uAC74",":"," ","uD300"," ","uD3B8","uC131">>,
       targets |-> <<"captain", "special">>],
    \* lines 3600-3604: name "\uc870\uac74: \ubaa8\ud5d8 \ub3c4\uc911 \uc120\uc7a5"
     [name |-> <<"uC870","uAC74",":"," ","uBAA8","uD5D8"," ","uB3C4","uC911"," ","uC120","uC7A5">>,
       targets |-> <<"captain">>],
    \* lines 3606-3610: name "\uc870\uac74: \ud0ed \ud0c0\uc774\ubc0d"
     [name |-> <<"uC870","uAC74",":"," ","uD0ED"," ","uD0C0","uC774","uBC0D">>,
       targets |-> <<"captain">>],
    \* lines 3612-3624: name "Old Type-boosting %target%"
     [name |-> <<"O","l","d"," ","T","y","p","e","-","b","o","o","s","t","i","n","g"," ","%","t","a","r","g","e","t","%">>,
       targets |-> <<"captain", "special", "superSpecial", "swap", "sailor", "support">>],
    \* lines 3626-3636: name "\uc870\uac74: \uc18d\uc131"
     [name |-> <<"uC870","uAC74",":"," ","uC18D","uC131">>,
       targets |-> <<"captain", "special", "superSpecial", "swap", "support">>,
       submatchers |-> <<"option", "option", "option", "option", "option">>],
    \* lines 3638-3648: name "\uc870\uac74: \uc18d\uc131"
     [name |-> <<"uC870","uAC74",":"," ","uC18D","uC131">>,
       targets |-> <<"sailor">>,
       submatchers |-> <<"option", "option", "option", "option", "option">>],
    \* lines 3650-3662: name "Old Class-boosting %target%"
     [name |-> <<"O","l","d"," ","C","l","a","s","s","-","b","o","o","s","t","i","n","g"," ","%","t","a","r","g","e","t","%">>,
       targets |-> <<"captain", "special", "superSpecial", "swap", "sailor", "support">>],
    \* lines 3664-3673: name "\uc870\uac74: \ud0c0\uc785"
     [name |-> <<"uC870","uAC74",":"," ","uD0C0","uC785">>,
       targets |-> <<"captain", "special", "superSpecial", "swap", "support">>,
       submatchers |-> <<"option", "option", "option", "option", "option", "option", "option", "option">>],
    \* lines 3675-3684: name "\uc870\uac74: \ud0c0\uc785"
     [name |-> <<"uC870","uAC74",":"," ","uD0C0","uC785">>,
       targets |-> <<"sailor">>,
       submatchers |-> <<"option", "option", "option", "option", "option", "option", "option", "option">>],
    \* lines 3686-3690: name "\ud574\uc11d\uc911Multiple Stage"
     [name |-> <<"uD574","uC11D","uC911","M","u","l","t","i","p","l","e"," ","S","t","a","g","e">>,
       targets |-> <<"special">>],
    \* lines 3692-3703: name "\uc870\uac74: \uc77c\uc815 \uccb4\ub825"
     [name |-> <<"uC870","uAC74",":"," ","uC77C","uC815"," ","uCCB4","uB825">>,
       targets |-> <<"captain", "special", "superSpecial", "swap", "sailor", "support">>]
  >>

\* the two excerpts as a rule-spec table, each under its group key (the key is
\* written in ASCII: group keys are only compared for equality)
ShippedExcerpt ==
  [gi \in 1..2 |->
     LET specs == IF gi = 1 THEN ShippedDamageSpecs ELSE ShippedConditionSpecs
     IN  [key |-> IF gi = 1 THEN "damage and stat boosts" ELSE "activation conditions",
          value |-> [mi \in 1..Len(specs) |-> WithRegex(specs[mi], gi, mi)]]]

ProbeTargets == {"captain", "limit", "rumble", "arena"}

NoLookup == [target |-> "", defined |-> FALSE]

\* ------------------------------------------------------ RegExp objects
\* A text is modelled as the sequence of its words (each a string); a pattern
\* as a sequence of items over words:
\*   [k |-> "lit", w]              the word w
\*   [k |-> "cap", g, cls]         capture group g: one word of the class cls
\*   [k |-> "opt", items]          (?: items )?   greedy
\*   [k |-> "alt", left, right]    (?: left | right )
\* A class is [chars, plus] (a word of these characters, then an optional
\* "+") or [words] (one of these words).
DigitSet == {Digits[i] : i \in 1..Len(Digits)}

LowerWord(w) == [i \in 1..Len(w) |-> ToLower(w[i])]

\* two words are the same, under the i flag up to the case of their letters
SameWord(a, b, ignoreCase) ==
  IF ignoreCase THEN LowerWord(a) = LowerWord(b) ELSE a = b

InClass(w, cls, ignoreCase) ==
  IF "words" \in DOMAIN cls
    THEN \E c \in cls.words : SameWord(w, c, ignoreCase)
    ELSE LET body == IF cls.plus /\ Len(w) > 1 /\ w[Len(w)] = "+"
                       THEN SubSeq(w, 1, Len(w) - 1) ELSE w
         IN  /\ body # <<>>
             /\ \A i \in 1..Len(body) : body[i] \in cls.chars

\* a capture group that took no part in the match, and one that captured
NoCapture == [def |-> FALSE, text |-> <<>>]
Captured(words) == [def |-> TRUE, text |-> words]

NoMatch == [ok |-> FALSE, end |-> 0, caps |-> {}]

\* the items matched from word i on (i is 1-based), with backtracking into opt
\* and alt in the order of a backtracking matcher: the first way that lets
\* the rest match
RECURSIVE MatchItems(_, _, _, _)
MatchItems(items, text, i, ignoreCase) ==
  IF items = <<>> THEN [ok |-> TRUE, end |-> i, caps |-> {}]
  ELSE
    LET it == Head(items)
        rest == Tail(items)
    IN  CASE it.k = "lit" ->
               IF i <= Len(text) /\ SameWord(text[i], it.w, ignoreCase)
                 THEN MatchItems(rest, text, i + 1, ignoreCase)
                 ELSE NoMatch
          [] it.k = "cap" ->
               IF i <= Len(text) /\ InClass(text[i], it.cls, ignoreCase)
                 THEN LET r == MatchItems(rest, text, i + 1, ignoreCase)
                      IN  IF r.ok
                            THEN [r EXCEPT !.caps = @ \cup {<<it.g, Captured(<<text[i]>>)>>}]
                            ELSE NoMatch
                 ELSE NoMatch
          [] it.k = "opt" ->
               LET r == MatchItems(it.items \o rest, text, i, ignoreCase)
               IN  IF r.ok THEN r ELSE MatchItems(rest, text, i, ignoreCase)
          [] it.k = "alt" ->
               LET r == MatchItems(it.left \o rest, text, i, ignoreCase)
               IN  IF r.ok THEN r
                   ELSE MatchItems(it.right \o rest, text, i, ignoreCase)

\* the capture groups 1..n of a match
GroupsOf(caps, n) ==
  [g \in 1..n |->
     IF \E c \in caps : c[1] = g
       THEN (CHOOSE c \in caps : c[1] = g)[2] ELSE NoCapture]

\* RegExp.prototype.exec(text) on a RegExp object whose lastIndex is li
\* (0-based): a global RegExp searches from lastIndex and leaves the end of
\* the match (or 0) there; a RegExp without the g flag searches from 0 and
\* leaves lastIndex alone
Exec(re, text, li) ==
  LET keepsIndex == "g" \in re.flags
      from == IF keepsIndex THEN li ELSE 0
      ic == "i" \in re.flags
      starts == {s \in from..Len(text) : MatchItems(re.items, text, s + 1, ic).ok}
  IN  IF starts = {}
        THEN [matched |-> FALSE, groups |-> <<>>,
              lastIndex |-> IF keepsIndex THEN 0 ELSE li]
        ELSE LET s == CHOOSE x \in starts : \A y \in starts : x <= y
                 r == MatchItems(re.items, text, s + 1, ic)
             IN  [matched |-> TRUE, groups |-> GroupsOf(r.caps, re.ngroups),
                  lastIndex |-> IF keepsIndex THEN r.end - 1 ELSE li]

\* ------------------------------------------------- submatcher extraction
\* numbers are kept in tenths (a word has at most one decimal that counts)
Tenths == 10

Infinity == [inf |-> TRUE, nan |-> FALSE, v |-> 0]
NaN == [inf |-> FALSE, nan |-> TRUE, v |-> 0]
Finite(v) == [inf |-> FALSE, nan |-> FALSE, v |-> v]

\* the value of a string of digits
RECURSIVE DigitsValue(_)
DigitsValue(ds) ==
  IF ds = <<>> THEN 0
  ELSE DigitsValue(SubSeq(ds, 1, Len(ds) - 1)) * 10 + (IndexOf(Digits, ds[Len(ds)]) - 1)

\* the longest prefix of w made of digits
RECURSIVE DigitPrefix(_)
DigitPrefix(w) ==
  IF w = <<>> \/ Head(w) \notin DigitSet THEN <<>>
  ELSE <<Head(w)>> \o DigitPrefix(Tail(w))

\* parseFloat(w): digits, then optionally "." and digits; NaN without a digit
ParseFloat(w) ==
  LET int == DigitPrefix(w)
      after == SubSeq(w, Len(int) + 1, Len(w))
      frac == IF after # <<>> /\ Head(after) = "." THEN DigitPrefix(Tail(after)) ELSE <<>>
  IN  IF int = <<>> /\ frac = <<>> THEN NaN
      ELSE Finite(DigitsValue(int) * Tenths
                  + (IF frac = <<>> THEN 0 ELSE IndexOf(Digits, frac[1]) - 1))

Completely == <<"c","o","m","p","l","e","t","e","l","y">>
NinetyNinePlus == <<"9","9","+">>

\* every "?" of the word becomes "0"
ReplaceUnknown(w) == [i \in 1..Len(w) |-> IF w[i] = "?" THEN "0" ELSE w[i]]

\* the word is parsed as it is; "completely" and "99+" get no value of their own
NormalizeNumberParsed(w) ==
  LET n == ParseFloat(ReplaceUnknown(w))
  IN  IF n.nan THEN Finite(0) ELSE n

\* the number a captured word stands for: "completely" and "99+" are
\* Infinity, every "?" counts as 0, a word that is no number counts as 0
NormalizeNumber(w) ==
  IF w = Completely \/ w = NinetyNinePlus THEN Infinity
  ELSE LET n == ParseFloat(ReplaceUnknown(w))
       IN  IF n.nan THEN Finite(0) ELSE n

\* the captured text of a group is defined and not empty
HasText(capture) == capture.def /\ capture.text # <<>>

\* the last bound group that captured text wins
FirstDefinedFromEnd(groups, bound) ==
  IF \E k \in 1..Len(bound) : HasText(groups[bound[k]])
    THEN CHOOSE k \in 1..Len(bound) :
           /\ HasText(groups[bound[k]])
           /\ \A j \in (k + 1)..Len(bound) : ~HasText(groups[bound[j]])
    ELSE 0

\* position, in the bound-group list, of the first group that captured text
\* (0: none did)
FirstDefined(groups, bound) ==
  IF \E k \in 1..Len(bound) : HasText(groups[bound[k]])
    THEN CHOOSE k \in 1..Len(bound) :
           /\ HasText(groups[bound[k]])
           /\ \A j \in 1..(k - 1) : ~HasText(groups[bound[j]])
    ELSE 0

\* the high end is read from the bound group after the winning one even when
\* that group did not capture (and then counts as 0)
ExtractNumberOpenRange(sub, groups) ==
  LET k == FirstDefined(groups, sub.groups)
  IN  IF k = 0 THEN [kind |-> "number", low |-> Finite(0), high |-> Finite(0)]
      ELSE [kind |-> "number",
            low |-> NormalizeNumber(groups[sub.groups[k]].text[1]),
            high |-> IF k < Len(sub.groups)
                       THEN (IF HasText(groups[sub.groups[k + 1]])
                               THEN NormalizeNumber(groups[sub.groups[k + 1]].text[1])
                               ELSE Finite(0))
                       ELSE NormalizeNumber(groups[sub.groups[k]].text[1])]

\* Number: the winning word is the low end; the bound group after it, when it
\* captured, is the high end, else the range is the single value
ExtractNumber(sub, groups) ==
  LET k == FirstDefined(groups, sub.groups)
  IN  IF k = 0 THEN [kind |-> "number", low |-> Finite(0), high |-> Finite(0)]
      ELSE LET low == NormalizeNumber(groups[sub.groups[k]].text[1])
               hasHigh == k < Len(sub.groups) /\ HasText(groups[sub.groups[k + 1]])
           IN  [kind |-> "number", low |-> low,
                high |-> IF hasHigh
                           THEN NormalizeNumber(groups[sub.groups[k + 1]].text[1])
                           ELSE low]

\* Text: the winning captured text, verbatim
ExtractText(sub, groups) ==
  LET k == FirstDefined(groups, sub.groups)
  IN  [kind |-> "text",
       text |-> IF k = 0 THEN <<>> ELSE groups[sub.groups[k]].text]

\* the text of the bound groups, one after the other; a group that did not
\* capture gives no text
RECURSIVE BoundText(_, _)
BoundText(groups, bound) ==
  IF bound = <<>> THEN <<>>
  ELSE groups[Head(bound)].text \o BoundText(groups, Tail(bound))

\* an option pattern [empty, any, starts, has, flags] tested on a text:
\*   empty: the alternative ^$     any: the alternative .
\*   starts: alternatives ^word    has: alternatives word
TestPattern(re, text, ignoreCase) ==
  \/ re.empty /\ text = <<>>
  \/ re.any /\ text # <<>>
  \/ text # <<>> /\ \E w \in re.starts : SameWord(text[1], w, ignoreCase)
  \/ \E i \in 1..Len(text) : \E w \in re.has : SameWord(text[i], w, ignoreCase)

\* Option: the submatcher's RegExp object tested on the text of its bound
\* groups; the letters are compared without case when the object has the i flag
ExtractOption(sub, groups) ==
  [kind |-> "option",
   flag |-> TestPattern(sub.regex, BoundText(groups, sub.groups),
                        "i" \in sub.regex.flags)]

\* the value of one submatcher for a match; a separator has none
Extract(sub, groups) ==
  CASE sub.type = "number" -> ExtractNumber(sub, groups)
    [] sub.type = "text" -> ExtractText(sub, groups)
    [] sub.type = "option" -> ExtractOption(sub, groups)

\* description -> value, for the submatchers of a rule in their order
RECURSIVE SubmatcherValues(_, _)
SubmatcherValues(subs, groups) ==
  IF subs = <<>> THEN <<>>
  ELSE IF Head(subs).type = "separator" THEN SubmatcherValues(Tail(subs), groups)
  ELSE <<[key |-> Head(subs).description, value |-> Extract(Head(subs), groups)]>>
       \o SubmatcherValues(Tail(subs), groups)

\* ------------------------------------------ rule specs with their patterns
\* the flags of the rule patterns of the table (/.../i)
RuleFlagsGlobal == {"g", "i"}

RuleFlags == {"i"}

\* [?.\d]+   [?\d]+\+?   [?\d]+
MultiplierClass == [chars |-> DigitSet \cup {"?", "."}, plus |-> FALSE]
TurnsClass == [chars |-> DigitSet \cup {"?"}, plus |-> TRUE]
PlainTurnsClass == [chars |-> DigitSet \cup {"?"}, plus |-> FALSE]

Lit(w) == [k |-> "lit", w |-> w]
Cap(g, cls) == [k |-> "cap", g |-> g, cls |-> cls]
Opt(items) == [k |-> "opt", items |-> items]
Alt(left, right) == [k |-> "alt", left |-> left, right |-> right]

\* a RegExp object: its identity, its pattern and its flags
RegExpObject(id, items, ngroups, flags) ==
  [id |-> id, items |-> items, ngroups |-> ngroups, flags |-> flags]

\* an option pattern
OptionPattern(empty, any, starts, has, flags) ==
  [empty |-> empty, any |-> any, starts |-> starts, has |-> has, flags |-> flags]

\* /for ([?\d]+\+?)(?:-([?\d]+))? turns/i
TurnsRegex ==
  RegExpObject("turns",
    << Lit(<<"f","o","r">>), Cap(1, TurnsClass),
       Opt(<< Lit(<<"-">>), Cap(2, PlainTurnsClass) >>), Lit(<<"t","u","r","n","s">>) >>,
    2, RuleFlags)

\* /by ([?.\d]+)x(?:-([?.\d]+)x)?(?:, by ([?.\d]+)x(?:-([?.\d]+)x)?)?/i
BoostRegex ==
  RegExpObject("boost",
    << Lit(<<"b","y">>), Cap(1, MultiplierClass), Lit(<<"x">>),
       Opt(<< Lit(<<"-">>), Cap(2, MultiplierClass), Lit(<<"x">>) >>),
       Opt(<< Lit(<<",">>), Lit(<<"b","y">>), Cap(3, MultiplierClass), Lit(<<"x">>),
              Opt(<< Lit(<<"-">>), Cap(4, MultiplierClass), Lit(<<"x">>) >>) >>) >>,
    4, RuleFlags)

\* /reduces (?:(completely)|by ([?\d]+)(?:-([?\d]+))? turns)/i
ReduceRegex ==
  RegExpObject("reduce",
    << Lit(<<"r","e","d","u","c","e","s">>),
       Alt(<< Cap(1, [words |-> {Completely}]) >>,
           << Lit(<<"b","y">>), Cap(2, PlainTurnsClass),
              Opt(<< Lit(<<"-">>), Cap(3, PlainTurnsClass) >>), Lit(<<"t","u","r","n","s">>) >>) >>,
    3, RuleFlags)

\* /deals (?:(fixed) )?damage to (one|the|all|each|random)/i
DealsRegex ==
  RegExpObject("deals",
    << Lit(<<"d","e","a","l","s">>), Opt(<< Cap(1, [words |-> {<<"f","i","x","e","d">>}]) >>), Lit(<<"d","a","m","a","g","e">>), Lit(<<"t","o">>),
       Cap(2, [words |-> {<<"o","n","e">>, <<"t","h","e">>, <<"a","l","l">>, <<"e","a","c","h">>, <<"r","a","n","d","o","m">>}]) >>,
    2, RuleFlags)

\* the rule specs of the two groups; the names are "turns", "boost",
\* "old boost", "reduce" and "deals"
EngineTable ==
  << [key |-> GroupNames[1],
      value |->
        << [name |-> <<"t","u","r","n","s">>,
            targets |-> <<"captain", "special">>,
            regex |-> TurnsRegex,
            submatchers |->
              << [type |-> "number", description |-> "turns", groups |-> <<1, 2>>] >>],
           [name |-> <<"b","o","o","s","t">>,
            targets |-> <<"captain", "special">>,
            regex |-> BoostRegex,
            submatchers |->
              << [type |-> "number", description |-> "multiplier",
                  groups |-> <<1, 2, 3, 4>>] >>],
           [name |-> <<"o","l","d"," ","b","o","o","s","t">>,
            targets |-> <<"captain">>,
            regex |-> RegExpObject("old boost", << Lit(<<"b","y">>) >>, 0, RuleFlags)] >>],
     [key |-> GroupNames[2],
      value |->
        << [name |-> <<"r","e","d","u","c","e">>,
            targets |-> <<"special">>,
            regex |-> ReduceRegex,
            submatchers |->
              << [type |-> "number", description |-> "turns", groups |-> <<1, 2, 3>>] >>],
           [name |-> <<"d","e","a","l","s">>,
            targets |-> <<"captain">>,
            regex |-> DealsRegex,
            submatchers |->
              << [type |-> "option", description |-> "fixed",
                  regex |-> OptionPattern(FALSE, TRUE, {}, {}, {}),
                  groups |-> <<1>>],
                 [type |-> "option", description |-> "not fixed",
                  regex |-> OptionPattern(TRUE, FALSE, {}, {}, {}),
                  groups |-> <<1>>],
                 [type |-> "separator", description |-> "targets:"],
                 [type |-> "option", description |-> "one enemy",
                  regex |-> OptionPattern(FALSE, FALSE, {<<"o","n","e">>, <<"t","h","e">>}, {}, {}),
                  radioGroup |-> "targets", groups |-> <<2>>],
                 [type |-> "option", description |-> "all enemies",
                  regex |-> OptionPattern(FALSE, FALSE, {<<"a","l","l">>, <<"e","a","c","h">>}, {}, {}),
                  radioGroup |-> "targets", groups |-> <<2>>],
                 [type |-> "text", description |-> "what", groups |-> <<1, 2>>] >>] >>] >>

\* ability texts:
\*   "by 2 x - 3 x"
\*   "by ? x"
\*   "by 2.? x - 3.5 x"
\*   "by 2 x , by ? x - 3 x"
\*   "by ? x for 99+ turns"
\*   "for ? turns"
\*   "reduces completely"
\*   "reduces by 1 - 3 turns"
\*   "reduces by ? turns"
\*   "deals fixed damage to one"
\*   "deals damage to all"
\*   "Deals damage to One"
\*   "recovers"
\*   "by 2 x for 3 turns"
\*   "for 3 turns for 2 turns"
\*   "deals fixed damage to each by 2 x for 3 turns"
TextSamples ==
  { <<<<"b","y">>, <<"2">>, <<"x">>, <<"-">>, <<"3">>, <<"x">>>>,
    <<<<"b","y">>, <<"?">>, <<"x">>>>,
    <<<<"b","y">>, <<"2",".","?">>, <<"x">>, <<"-">>, <<"3",".","5">>, <<"x">>>>,
    <<<<"b","y">>, <<"2">>, <<"x">>, <<",">>, <<"b","y">>, <<"?">>, <<"x">>, <<"-">>, <<"3">>, <<"x">>>>,
    <<<<"b","y">>, <<"?">>, <<"x">>, <<"f","o","r">>, <<"9","9","+">>, <<"t","u","r","n","s">>>>,
    <<<<"f","o","r">>, <<"?">>, <<"t","u","r","n","s">>>>,
    <<<<"r","e","d","u","c","e","s">>, <<"c","o","m","p","l","e","t","e","l","y">>>>,
    <<<<"r","e","d","u","c","e","s">>, <<"b","y">>, <<"1">>, <<"-">>, <<"3">>, <<"t","u","r","n","s">>>>,
    <<<<"r","e","d","u","c","e","s">>, <<"b","y">>, <<"?">>, <<"t","u","r","n","s">>>>,
    <<<<"d","e","a","l","s">>, <<"f","i","x","e","d">>, <<"d","a","m","a","g","e">>, <<"t","o">>, <<"o","n","e">>>>,
    <<<<"d","e","a","l","s">>, <<"d","a","m","a","g","e">>, <<"t","o">>, <<"a","l","l">>>>,
    <<<<"D","e","a","l","s">>, <<"d","a","m","a","g","e">>, <<"t","o">>, <<"O","n","e">>>>,
    <<<<"r","e","c","o","v","e","r","s">>>>,
    <<<<"b","y">>, <<"2">>, <<"x">>, <<"f","o","r">>, <<"3">>, <<"t","u","r","n","s">>>>,
    <<<<"f","o","r">>, <<"3">>, <<"t","u","r","n","s">>, <<"f","o","r">>, <<"2">>, <<"t","u","r","n","s">>>>,
    <<<<"d","e","a","l","s">>, <<"f","i","x","e","d">>, <<"d","a","m","a","g","e">>, <<"t","o">>, <<"e","a","c","h">>, <<"b","y">>, <<"2">>, <<"x">>,
      <<"f","o","r">>, <<"3">>, <<"t","u","r","n","s">>>> }

\* the targets a classification is asked for
ClassifyTargets == {"captain", "special", "arena"}

\* ------------------------------------------- classification and filtering
\* the rules of a target in the order the registry enumerates them: groups
\* in their order, then the names of a group in their order; none for a
\* target the registry does not have
RulesOf(reg, target) ==
  IF Has(reg, target)
    THEN LET groups == Get(reg, target)
         IN  Flatten([gi \in 1..Len(groups) |->
               [ni \in 1..Len(groups[gi].value) |-> groups[gi].value[ni].value]])
    ELSE <<>>

SubmatchersOf(rule) ==
  IF "submatchers" \in DOMAIN rule THEN rule.submatchers ELSE <<>>

\* the Tag of a rule whose pattern matched with these capture groups
TagOf(rule, groups) ==
  [ruleName |-> rule.name, group |-> rule.group, target |-> rule.target,
   submatcherValues |-> SubmatcherValues(SubmatchersOf(rule), groups)]

\* every rule in turn: pattern.exec(text) on the rule's RegExp object, a Tag
\* when it matches; li is the lastIndex of every RegExp object
RECURSIVE ClassifyFrom(_, _, _)
ClassifyFrom(rules, text, li) ==
  IF rules = <<>> THEN [tags |-> <<>>, lastIndex |-> li]
  ELSE LET rule == Head(rules)
           m == Exec(rule.regex, text, li[rule.regex.id])
           rest == ClassifyFrom(Tail(rules), text,
                                [li EXCEPT ![rule.regex.id] = m.lastIndex])
       IN  [tags |-> (IF m.matched THEN <<TagOf(rule, m.groups)>> ELSE <<>>)
                       \o rest.tags,
            lastIndex |-> rest.lastIndex]

\* classify(target, abilityText) against the registry reg
classify(reg, target, text, li) == ClassifyFrom(RulesOf(reg, target), text, li)

\* a < b, a = b on numbers with Infinity; no comparison holds of NaN
NumLess(a, b) == ~a.nan /\ ~b.nan /\ ~a.inf /\ (b.inf \/ a.v < b.v)
NumEq(a, b) == ~a.nan /\ ~b.nan /\ a.inf = b.inf /\ (a.inf \/ a.v = b.v)

Comparators == {"<", "<=", "=", ">=", ">"}

\* "=" answers as "<=" does
CompareEqualAsAtMost(n, comparator, value) ==
  CASE comparator = "<" -> NumLess(n, value)
    [] comparator = "<=" -> NumLess(n, value) \/ NumEq(n, value)
    [] comparator = "=" -> NumLess(n, value) \/ NumEq(n, value)
    [] comparator = ">=" -> NumLess(value, n) \/ NumEq(n, value)
    [] comparator = ">" -> NumLess(value, n)

Compare(n, comparator, value) ==
  CASE comparator = "<" -> NumLess(n, value)
    [] comparator = "<=" -> NumLess(n, value) \/ NumEq(n, value)
    [] comparator = "=" -> NumEq(n, value)
    [] comparator = ">=" -> NumLess(value, n) \/ NumEq(n, value)
    [] comparator = ">" -> NumLess(value, n)

\* one constraint of a filter on the Tag of the selected rule:
\*   [kind |-> "number", description, comparator, value]
\*   [kind |-> "option", enabled]   (descriptions of the enabled options)
ConstraintHolds(tag, c) ==
  LET values == tag.submatcherValues
  IN  CASE c.kind = "number" ->
             /\ Has(values, c.description)
             /\ LET n == Get(values, c.description)
                IN  \/ Compare(n.low, c.comparator, c.value)
                    \/ Compare(n.high, c.comparator, c.value)
        [] c.kind = "option" ->
             \E d \in c.enabled : Has(values, d) /\ Get(values, d).flag

\* a Tag of the rule name in the group is taken whatever its target
evaluateFilterAnyTarget(tagSet, target, group, ruleName, constraints) ==
  \E i \in 1..Len(tagSet) :
    /\ tagSet[i].group = group
    /\ tagSet[i].ruleName = ruleName
    /\ \A k \in 1..Len(constraints) : ConstraintHolds(tagSet[i], constraints[k])

\* evaluateFilter(tagSet, target, group, ruleName, constraints)
evaluateFilter(tagSet, target, group, ruleName, constraints) ==
  \E i \in 1..Len(tagSet) :
    /\ tagSet[i].target = target
    /\ tagSet[i].group = group
    /\ tagSet[i].ruleName = ruleName
    /\ \A k \in 1..Len(constraints) : ConstraintHolds(tagSet[i], constraints[k])

\* the values a user compares with, in tenths: 0, 1, 3
FilterValues == {Finite(0), Finite(10), Finite(30)}

NumberConstraints ==
  [kind : {"number"}, description : {"turns", "multiplier"},
   comparator : Comparators, value : FilterValues]

OptionConstraints ==
  { [kind |-> "option", enabled |-> e] :
      e \in {{"fixed"}, {"not fixed"}, {"one enemy", "all enemies"}} }

\* the constraints of one filter: none or one
ConstraintSamples ==
  {<<>>} \cup {<<c>> : c \in NumberConstraints \cup OptionConstraints}

NoCall == [target |-> "", text |-> <<>>, tags |-> <<>>]

\* the call kept for comparison: no later call yet
Kept(c) ==
  [target |-> c.target, text |-> c.text, tags |-> c.tags,
   between |-> FALSE, repeated |-> FALSE]

\* the kept call after a later call c: `between` once a call for another
\* target or text came after it, `repeated` once the same call came after that
KeptAfter(kept, c) ==
  IF c.target = kept.target /\ c.text = kept.text
    THEN [kept EXCEPT !.repeated = kept.between]
    ELSE [kept EXCEPT !.between = TRUE]
NoVerdict == [asked |-> FALSE]

\* ------------------------------------------------------------------- state
VARIABLES
  matchers,        \* the rule-spec table: group -> array of rule specs
  windowMatchers,  \* window.matchers: target -> group -> name -> rule
  consoleErrors,   \* the console.error messages of the running build
  pc,              \* "parse", "table", "build", "sort", "done" or "failed"
  pos,             \* index of the next iteration of the running loop
  assigned,        \* rules stored by the running build (line 8043 executions)
  builds,          \* completed runs of the build block
  firstRegistry,   \* window.matchers as the first completed build left it
  lookedUp,        \* result of the last lookup
  addedGroup,      \* group a rule spec was added to after the first build ("": none)
  lastIndex,       \* lastIndex of every RegExp object of the table
  tagSet,          \* the last classify call: target, text and its Tags
  firstCall,       \* a classify call kept to compare later calls with
  verdict,         \* the last evaluateFilter call and its result
  types,           \* the array `types` of line 179
  classes,         \* the array `classes` of lines 180-189
  arrays,          \* the arrays the generator calls were given or made, by identity
  calls,           \* the generator calls made so far, in order
  copyArrays,      \* the array each stored rule has as its submatchers, by identity
  scope,           \* ContactCtrl: the fields of its $scope
  requests,        \* ContactCtrl: the $http requests made, each with its state
  tracked,         \* ContactCtrl: the requests added to the tracker of line 12
  lastSubmit,      \* ContactCtrl: the last call of $scope.submit and how it ended
  messagesFrom,    \* ContactCtrl: the request whose completion wrote $scope.messages
  recents,         \* PickerCtrl: $scope.recents
  storage,         \* the list $storage keeps under 'slotRecentUnits'
  pickerOpen,      \* a PickerCtrl is alive
  pickedUnit       \* the unit number of the last updateRecent call

vars ==
  << matchers, windowMatchers, consoleErrors, pc, pos, assigned, builds,
     firstRegistry, lookedUp, addedGroup, lastIndex, tagSet, firstCall, verdict,
     types, classes, arrays, calls, copyArrays, scope, requests, tracked, lastSubmit,
     messagesFrom, recents, storage, pickerOpen, pickedUnit >>

registryVars ==
  << matchers, windowMatchers, consoleErrors, pc, pos, assigned, builds,
     firstRegistry, lookedUp, addedGroup >>

generatorVars == << types, classes, arrays, calls >>

contactVars == << scope, requests, tracked, lastSubmit, messagesFrom >>

pickerVars == << recents, storage, pickerOpen, pickedUnit >>

\* the other pages of the site
pageVars == << contactVars, pickerVars >>

\* what the build of the registry leaves alone
readerVars == << lastIndex, tagSet, firstCall, verdict, generatorVars, pageVars >>

\* ... but for the arrays of the copies it stores
engineVars == << readerVars, copyArrays >>

\* var types = [...]; var classes = [...]
TypesLiteral == << "STR", "DEX", "QCK", "PSY", "INT" >>
ClassesLiteral ==
  << "Fighter", "Shooter", "Slasher", "Striker", "Free Spirit", "Cerebral",
     "Powerhouse", "Driven" >>

\* ----------------------------------------- the arrays of the stored rules
\* An array is known by its identity. The submatchers array of the rule
\* spec at matchers[group][index] is the one the table literal made; the
\* array [...] makes in a pass of the loops is a new one.
SpecArray(gi, mi) == << "spec", gi, mi >>
NewArray(build, stored) == << "copy", build, stored >>

\* no rule is stored
NoArrays == << >>

\* the copy keeps the array of the spec: line 8041 is not there
submatchersArrayKept(specArray, newArray) == specArray

\* matcherCopy.submatchers = [...matcherCopy.submatchers] (lines 8040-8042):
\* the field of the copy holds the new array
submatchersArray(specArray, newArray) == newArray

\* window.matchers[target][group][newName] = matcherCopy: the rule at `key`
\* is the copy, with `array` as its submatchers if the spec has any
CopyArray(ids, key, matcher, array) ==
  [k \in IF "submatchers" \in DOMAIN matcher
           THEN (DOMAIN ids) \cup {key} ELSE (DOMAIN ids) \ {key} |->
     IF k = key THEN array ELSE ids[k]]

\* ------------------------------------------------- the contact form
\* src/turtles/app/controllers/contactCtrl.js. A value of the script is
\* written with its type; a string outside ASCII by its code units.
Undefined == [type |-> "undefined", value |-> ""]
Null == [type |-> "null", value |-> ""]
String(s) == [type |-> "string", value |-> s]
Boolean(b) == [type |-> "boolean", value |-> IF b THEN "true" ELSE "false"]

\* promiseTracker(): the tracker object of line 12
Tracker == [type |-> "object", value |-> "promiseTracker"]

\* $scope.subjectListOptions (lines 3-7)
subjectListOptions ==
  << String("uBC84uADF8 uC2E0uACE0"),
     String("uAC1CuC120 uC0ACuD56D uC81CuC548"),
     String("uAE30uD0C0") >>

\* the status messages of lines 51, 54 and 60
SentMessage ==
  String("uBB38uC758uAC00 uC131uACF5uC801uC73CuB85C uC804uC1A1uB418uC5C8uC2B5uB2C8uB2E4!")
ProcessingMessage ==
  String("uC694uCCADuC744 uBC1BuC558uC9C0uB9CC uCC98uB9AC uC911 uC624uB958uAC00 uBC1CuC0DDuD588uC2B5uB2C8uB2E4.")
NetworkMessage ==
  String("uB124uD2B8uC6CCuD06C uC624uB958uAC00 uBC1CuC0DDuD588uC2B5uB2C8uB2E4. uB098uC911uC5D0 uB2E4uC2DC uC2DCuB3C4uD574 uC8FCuC138uC694.")

\* the requests one page makes at most
MaxRequests == 2

\* what the visitor types into the form (the view binds the fields)
EnteredSamples ==
  { [name |-> String("Nami"), email |-> String("nami@example.org"),
     subjectList |-> subjectListOptions[1], url |-> Undefined,
     comments |-> String("The filter shows no captain.")],
    [name |-> String("Usopp"), email |-> String("usopp"),
     subjectList |-> subjectListOptions[3], url |-> String("https://example.org"),
     comments |-> String("")] }

\* how a request ends: .success is called for a 2xx status, .error for any
\* other status and for a request that got no response (data is null then)
ResponseSamples ==
  [status : {"success"}, data : {String("OK"), String("ok"), String("Mail error")}]
  \cup [status : {"error"}, data : {Null, String("OK")}]

\* no call of $scope.submit yet
NoSubmit == [invalid |-> FALSE, request |-> 0, threw |-> FALSE, called |-> FALSE]

\* the controller function has run (lines 3-12); the fields the view binds
\* and `submitted`, `messages` are not defined yet
InitContact ==
  /\ scope = [name |-> Undefined, email |-> Undefined,
              subjectList |-> subjectListOptions[1], url |-> Undefined,
              comments |-> Undefined, submitted |-> Undefined,
              messages |-> Undefined, progress |-> Tracker]
  /\ requests = <<>>
  /\ tracked = {}
  /\ lastSubmit = NoSubmit
  /\ messagesFrom = 0

\* the visitor fills the form in
EnterFields ==
  /\ \E e \in EnteredSamples :
       scope' = [scope EXCEPT !.name = e.name, !.email = e.email,
                              !.subjectList = e.subjectList, !.url = e.url,
                              !.comments = e.comments]
  /\ UNCHANGED << requests, tracked, lastSubmit, messagesFrom >>
  /\ UNCHANGED << registryVars, lastIndex, tagSet, firstCall, verdict,
                  generatorVars, pickerVars, copyArrays >>

\* var formData = { From, Email, Subject, Comments } (lines 24-29)
formData(sc) ==
  [From |-> sc.name, Email |-> sc.email, Subject |-> sc.subjectList,
   Comments |-> sc.comments]

\* $scope.progress.addPromise is a function: only the tracker has one
HasAddPromise(progress) == progress = Tracker

\* $scope.submit(form), lines 15-72: the request is made at line 32 and
\* given to the tracker at line 71, where a $scope.progress without
\* addPromise throws a TypeError
Submit ==
  /\ \E invalid \in BOOLEAN :
       IF invalid
         THEN /\ lastSubmit' = [invalid |-> TRUE, request |-> 0, threw |-> FALSE,
                                called |-> TRUE]
              /\ UNCHANGED << requests, tracked >>
         ELSE /\ Len(requests) < MaxRequests
              /\ requests' = Append(requests,
                               [state |-> "pending", data |-> formData(scope),
                                status |-> "", response |-> Undefined, timer |-> "none",
                                ended |-> 0])
              /\ tracked' = IF HasAddPromise(scope.progress)
                              THEN tracked \cup {Len(requests) + 1} ELSE tracked
              /\ lastSubmit' = [invalid |-> FALSE, request |-> Len(requests) + 1,
                                threw |-> ~HasAddPromise(scope.progress),
                                called |-> TRUE]
  /\ scope' = [scope EXCEPT !.submitted = Boolean(TRUE)]
  /\ UNCHANGED messagesFrom
  /\ UNCHANGED << registryVars, lastIndex, tagSet, firstCall, verdict,
                  generatorVars, pickerVars, copyArrays >>

\* the body is compared whatever its case
IsOKAnyCase(data) == data \in {String("OK"), String("ok")}

\* data == 'OK' (line 45)
IsOK(data) == data = String("OK")

\* the success callback of lines 40-57
success(sc, data) ==
  IF IsOK(data)
    THEN [sc EXCEPT !.name = Null, !.email = Null, !.subjectList = Null,
                    !.url = Null, !.comments = Null, !.messages = SentMessage,
                    !.submitted = Boolean(FALSE)]
    ELSE [sc EXCEPT !.messages = ProcessingMessage]

\* the error callback of lines 58-62
error(sc, data) == [sc EXCEPT !.progress = data, !.messages = NetworkMessage]

\* the requests that are over
Ended(rs) == Cardinality({i \in 1..Len(rs) : rs[i].state = "completed"})

\* the request r is over: its success or error callback runs, then the
\* finally callback, which starts the timer of lines 65-67
Complete(r) ==
  /\ r \in 1..Len(requests)
  /\ requests[r].state = "pending"
  /\ \E response \in ResponseSamples :
       /\ scope' = IF response.status = "success"
                     THEN success(scope, response.data)
                     ELSE error(scope, response.data)
       /\ requests' = [requests EXCEPT ![r].state = "completed",
                                       ![r].status = response.status,
                                       ![r].response = response.data,
                                       ![r].timer = "started",
                                       ![r].ended = Ended(requests) + 1]
  /\ messagesFrom' = r
  /\ UNCHANGED << tracked, lastSubmit >>
  /\ UNCHANGED << registryVars, lastIndex, tagSet, firstCall, verdict,
                  generatorVars, pickerVars, copyArrays >>

\* the messages are kept when the timer fires
messagesAfterTimeoutKept(messages) == messages

\* $scope.messages = null (line 66)
messagesAfterTimeout(messages) == Null

\* three seconds after the request r was over, the function of lines 65-67
\* runs: the timers have the same delay and fire in the order they started
HideMessages(r) ==
  /\ r \in 1..Len(requests)
  /\ requests[r].timer = "started"
  /\ \A r2 \in 1..Len(requests) :
       requests[r2].timer = "started" => requests[r].ended <= requests[r2].ended
  /\ scope' = [scope EXCEPT !.messages = messagesAfterTimeout(@)]
  /\ requests' = [requests EXCEPT ![r].timer = "fired"]
  /\ messagesFrom' = 0
  /\ UNCHANGED << tracked, lastSubmit >>
  /\ UNCHANGED << registryVars, lastIndex, tagSet, firstCall, verdict,
                  generatorVars, pickerVars, copyArrays >>

CompleteRequest == \E r \in 1..MaxRequests : Complete(r)
TimerFires == \E r \in 1..MaxRequests : HideMessages(r)

NextContact ==
  \/ EnterFields
  \/ Submit
  \/ CompleteRequest
  \/ TimerFires

\* ------------------------------------------- the recently picked units
\* src/probability/js/controllers.js, PickerCtrl. A JSON text is the sequence
\* of its characters.
RECURSIVE DecimalDigits(_)
DecimalDigits(n) ==
  IF n < 10 THEN << Digits[n + 1] >>
  ELSE DecimalDigits(n \div 10) \o << Digits[(n % 10) + 1] >>

RECURSIVE JoinNumbers(_)
JoinNumbers(list) ==
  IF list = <<>> THEN <<>>
  ELSE IF Len(list) = 1 THEN DecimalDigits(list[1])
  ELSE DecimalDigits(Head(list)) \o << "," >> \o JoinNumbers(Tail(list))

\* JSON.stringify of an array of unit numbers
JSONstringify(list) == << "[" >> \o JoinNumbers(list) \o << "]" >>

RECURSIVE DigitRun(_)
DigitRun(cs) ==
  IF cs = <<>> \/ ~InSeq(Digits, Head(cs)) THEN <<>>
  ELSE << Head(cs) >> \o DigitRun(Tail(cs))

RECURSIVE DigitRunValue(_)
DigitRunValue(ds) ==
  IF ds = <<>> THEN 0
  ELSE DigitRunValue(SubSeq(ds, 1, Len(ds) - 1)) * 10
       + (IndexOf(Digits, ds[Len(ds)]) - 1)

RECURSIVE ParseNumbers(_)
ParseNumbers(cs) ==
  IF cs = <<>> THEN <<>>
  ELSE LET ds == DigitRun(cs)
           rest == SubSeq(cs, Len(ds) + 1, Len(cs))
       IN  << DigitRunValue(ds) >>
           \o (IF rest = <<>> THEN <<>> ELSE ParseNumbers(Tail(rest)))

\* JSON.parse of the text of an array of numbers
JSONparse(text) == ParseNumbers(SubSeq(text, 2, Len(text) - 1))

\* recentUnits.slice(0,16) (line 241)
MaxRecent == 16

\* array.indexOf(x): the index, from 0, of the first x, or -1
indexOf(array, x) ==
  IF InSeq(array, x)
    THEN (CHOOSE i \in 1..Len(array) :
            array[i] = x /\ \A j \in 1..(i - 1) : array[j] # x) - 1
    ELSE -1

\* array.splice(n, 1): what it returns and what it leaves in the array
spliced(array, n) == << array[n + 1] >>
afterSplice(array, n) == SubSeq(array, 1, n) \o SubSeq(array, n + 2, Len(array))

\* array.slice(0, end)
slice(array, end) == SubSeq(array, 1, IF Len(array) < end THEN Len(array) ELSE end)

\* the unit is put first whether it is in the list or not: no splice
updateRecentUnshift(scopeRecents, unitNumber) ==
  slice(<< unitNumber >> \o JSONparse(JSONstringify(scopeRecents)), MaxRecent)

\* updateRecent (lines 236-243): the list handed to $storage.set
updateRecent(scopeRecents, unitNumber) ==
  LET recentUnits == JSONparse(JSONstringify(scopeRecents))
      n == indexOf(recentUnits, unitNumber)
      moved == IF n < 0 THEN << unitNumber >> \o recentUnits
               ELSE spliced(recentUnits, n) \o afterSplice(recentUnits, n)
  IN  slice(moved, MaxRecent)

\* no updateRecent call yet
NoUnit == -1

\* the lists an earlier visit left in the storage
StoredSamples ==
  { <<>>, << 3, 1, 250 >>, [i \in 1..MaxRecent |-> MaxRecent + 1 - i],
    [i \in 1..(MaxRecent - 1) |-> 100 + i] }

\* the unit numbers picked
UnitSamples == { 0, 1, 16, 17, 250 }

InitPicker(stored) ==
  /\ recents = <<>>
  /\ storage = stored
  /\ pickerOpen = FALSE
  /\ pickedUnit = NoUnit

\* the picker state is entered: the controller function runs (line 203)
OpenPicker ==
  /\ ~pickerOpen
  /\ recents' = storage
  /\ pickerOpen' = TRUE
  /\ pickedUnit' = NoUnit
  /\ UNCHANGED storage
  /\ UNCHANGED << registryVars, lastIndex, tagSet, firstCall, verdict,
                  generatorVars, contactVars, copyArrays >>

\* $scope.pickUnit(unitNumber), lines 211-215: the unit goes to the slot,
\* the list is stored and $state.go('^') leaves the picker state
pickUnit ==
  /\ pickerOpen
  /\ \E unitNumber \in UnitSamples :
       /\ storage' = updateRecent(recents, unitNumber)
       /\ pickedUnit' = unitNumber
  /\ pickerOpen' = FALSE
  /\ UNCHANGED recents
  /\ UNCHANGED << registryVars, lastIndex, tagSet, firstCall, verdict,
                  generatorVars, contactVars, copyArrays >>

NextPicker ==
  \/ OpenPicker
  \/ pickUnit

\* the tables as the script makes them, and no generator call yet
InitGenerators ==
  /\ types = TypesLiteral
  /\ classes = ClassesLiteral
  /\ arrays = <<>>
  /\ calls = <<>>

\* the state before the build loops, for a given rule-spec table and the
\* lastIndex of its RegExp objects
InitStored(table, li, stored) ==
  /\ matchers = table
  /\ windowMatchers = EmptyRegistry
  /\ consoleErrors = <<>>
  /\ pc = "build"
  /\ pos = 1
  /\ assigned = 0
  /\ builds = 0
  /\ firstRegistry = <<>>
  /\ lookedUp = NoLookup
  /\ addedGroup = ""
  /\ lastIndex = li
  /\ tagSet = NoCall
  /\ firstCall = NoCall
  /\ verdict = NoVerdict
  /\ InitGenerators
  /\ copyArrays = NoArrays
  /\ InitContact
  /\ InitPicker(stored)

\* ... in a browser that stores no recent units yet
InitWithIndex(table, li) == InitStored(table, li, <<>>)

\* the pattern of a rule spec of these tables is only an identity: no
\* RegExp object is run
InitWith(table) == InitWithIndex(table, <<>>)

Init ==
  \E sizes \in GroupSizes :
    \E flat \in [1..Sum(sizes) -> SpecSamples] : InitWith(TableOf(sizes, flat))

InitShipped == InitWith(ShippedExcerpt)

\* the iteration the build loops are at
CurGroup == matchers[BuildIterations(matchers)[pos][1]].key
CurMatcher ==
  LET it == BuildIterations(matchers)[pos] IN matchers[it[1]].value[it[2]]
CurTarget ==
  LET it == BuildIterations(matchers)[pos] IN CurMatcher.targets[it[3]]

AtIteration == pc = "build" /\ pos <= Len(BuildIterations(matchers))

\* if (!includeOldFilters && /^old/i.test(matcher.name)) continue;
SkipOld ==
  /\ AtIteration
  /\ IsSkipped(CurMatcher)
  /\ pos' = pos + 1
  /\ UNCHANGED << matchers, windowMatchers, consoleErrors, pc, assigned, builds,
                  firstRegistry, lookedUp, addedGroup, engineVars >>

\* one pass of the innermost loop body that stores a rule
Register ==
  /\ AtIteration
  /\ ~IsSkipped(CurMatcher)
  /\ LET it == BuildIterations(matchers)[pos]
         target == CurTarget
         group == CurGroup
         matcher == CurMatcher
         withTarget == EnsureKey(windowMatchers, target)
         groups == EnsureKey(Get(withTarget, target), group)
         rules == Get(groups, group)
         name == newName(matcher.name, target)
     IN  /\ consoleErrors' =
              IF IsDuplicate(rules, name)
                THEN Append(consoleErrors, name) ELSE consoleErrors
         /\ windowMatchers' =
              Put(withTarget, target,
                  Put(groups, group,
                      StoreRule(rules, name, matcherCopy(matcher, target, group, name))))
         /\ matchers' =
              [matchers EXCEPT ![it[1]].value[it[2]] = matcherAfterCopy(matcher)]
         /\ copyArrays' =
              CopyArray(copyArrays, << target, group, name >>, matcher,
                        submatchersArray(SpecArray(it[1], it[2]),
                                         NewArray(builds, assigned)))
  /\ assigned' = assigned + 1
  /\ pos' = pos + 1
  /\ UNCHANGED << pc, builds, firstRegistry, lookedUp, addedGroup, readerVars >>

\* the build loops are over: if (alphabeticalOrder) { ... }
EndLoops ==
  /\ pc = "build" /\ pos > Len(BuildIterations(matchers))
  /\ pc' = IF alphabeticalOrder THEN "sort" ELSE "done"
  /\ pos' = 1
  /\ builds' = IF alphabeticalOrder THEN builds ELSE builds + 1
  /\ firstRegistry' =
       IF ~alphabeticalOrder /\ builds = 0 THEN windowMatchers ELSE firstRegistry
  /\ UNCHANGED << matchers, windowMatchers, consoleErrors, assigned, lookedUp, addedGroup, engineVars >>

\* window.matchers[target][group] = sortObj(window.matchers[target][group])
SortGroup ==
  /\ pc = "sort" /\ pos <= Len(SortIterations(windowMatchers))
  /\ LET it == SortIterations(windowMatchers)[pos]
         groups == Get(windowMatchers, it[1])
     IN  windowMatchers' =
           Put(windowMatchers, it[1], Put(groups, it[2], sortObj(Get(groups, it[2]))))
  /\ pos' = pos + 1
  /\ UNCHANGED << matchers, consoleErrors, pc, assigned, builds, firstRegistry,
                  lookedUp, addedGroup, engineVars >>

EndSort ==
  /\ pc = "sort" /\ pos > Len(SortIterations(windowMatchers))
  /\ pc' = "done"
  /\ builds' = builds + 1
  /\ firstRegistry' = IF builds = 0 THEN windowMatchers ELSE firstRegistry
  /\ UNCHANGED << matchers, windowMatchers, consoleErrors, pos, assigned, lookedUp, addedGroup, engineVars >>

\* a reader takes window.matchers[target]
LookupTarget ==
  /\ pc = "done"
  /\ \E target \in ProbeTargets : lookedUp' = Lookup(windowMatchers, target)
  /\ UNCHANGED << matchers, windowMatchers, consoleErrors, pc, pos, assigned,
                  builds, firstRegistry, addedGroup, engineVars >>

\* the build block runs again over the same rule-spec table
Rebuild ==
  /\ pc = "done" /\ builds < MaxBuilds
  /\ windowMatchers' = EmptyRegistry
  /\ consoleErrors' = <<>>
  /\ pc' = "build"
  /\ pos' = 1
  /\ assigned' = 0
  /\ lookedUp' = NoLookup
  /\ copyArrays' = NoArrays
  /\ UNCHANGED << matchers, builds, firstRegistry, addedGroup, readerVars >>

InsertAt(seq, i, x) == SubSeq(seq, 1, i - 1) \o <<x>> \o SubSeq(seq, i, Len(seq))

SpecCount(ms) == Sum([gi \in 1..Len(ms) |-> Len(ms[gi].value)])

\* the table is edited (one rule spec more, in an old or in a new group) and
\* the build block runs over the edited table
AddSpec ==
  /\ pc = "done" /\ builds = 1 /\ addedGroup = ""
  /\ SpecCount(matchers) < MaxSpecs
  /\ \E x \in SpecSamples :
       LET spec == WithRegex(x, 0, 0)
       IN  \/ \E gi \in 1..Len(matchers) :
                \E i \in 1..(Len(matchers[gi].value) + 1) :
                  /\ matchers' =
                       [matchers EXCEPT ![gi].value = InsertAt(@, i, spec)]
                  /\ addedGroup' = matchers[gi].key
           \/ /\ Len(matchers) < MaxGroups
              /\ \E gi \in 1..(Len(matchers) + 1) :
                   /\ matchers' =
                        InsertAt(matchers, gi,
                                 [key |-> GroupNames[Len(matchers) + 1],
                                  value |-> <<spec>>])
                   /\ addedGroup' = GroupNames[Len(matchers) + 1]
  /\ windowMatchers' = EmptyRegistry
  /\ consoleErrors' = <<>>
  /\ pc' = "build"
  /\ pos' = 1
  /\ assigned' = 0
  /\ lookedUp' = NoLookup
  /\ copyArrays' = NoArrays
  /\ UNCHANGED << builds, firstRegistry, readerVars >>

Next ==
  \/ SkipOld
  \/ Register
  \/ EndLoops
  \/ SortGroup
  \/ EndSort
  \/ LookupTarget

\* the registry is built once, when the script is loaded
Spec == Init /\ [][Next]_vars

NextRebuild ==
  \/ SkipOld
  \/ Register
  \/ EndLoops
  \/ SortGroup
  \/ EndSort
  \/ Rebuild

\* the build block may run again (up to MaxBuilds times in all)
SpecRebuild == Init /\ [][NextRebuild]_vars

NextShipped ==
  \/ SkipOld
  \/ Register
  \/ EndLoops
  \/ SortGroup
  \/ EndSort
  \/ LookupTarget
  \/ Rebuild

NextAdd ==
  \/ SkipOld
  \/ Register
  \/ EndLoops
  \/ SortGroup
  \/ EndSort
  \/ AddSpec

\* the build, then one rule spec added to the table and the build again
SpecAdd == Init /\ [][NextAdd]_vars

\* the build over the excerpts of the shipped table
SpecShipped == InitShipped /\ [][NextShipped]_vars

\* ------------------------------------------------- the script is loaded
\* The patterns of a rule spec that may fail to compile: its RegExp literal,
\* compiled when the script is parsed (a SyntaxError then, and no statement of
\* the script runs), or a pattern a submatcher generator makes with
\* new RegExp(...) while the table literal is evaluated (the SyntaxError is
\* thrown out of the function of line 1, before line 7990)
PatternSamples == [literal : BOOLEAN, valid : BOOLEAN]

\* new RegExp(source, flags) and a RegExp literal throw on a malformed source
\* (the pattern compiles whatever its source)
CompileAlways(pattern) == FALSE

CompileFails(pattern) == ~pattern.valid

WithPattern(spec, gi, mi, pattern) ==
  [f \in (DOMAIN spec) \cup {"regex"} |->
     IF f = "regex"
       THEN [id |-> <<gi, mi>>, literal |-> pattern.literal, valid |-> pattern.valid]
       ELSE spec[f]]

\* the rule specs of the loaded tables: a name that is kept or one that is
\* left out, any list of targets
LoadSpecSamples == [name : {<<"b">>, <<"o","L","d">>}, targets : TargetLists]

LoadTableOf(sizes, flat, patterns) ==
  [gi \in 1..Len(sizes) |->
     [key |-> GroupNames[gi],
      value |-> [mi \in 1..sizes[gi] |->
                   WithPattern(flat[Sum(SubSeq(sizes, 1, gi - 1)) + mi], gi, mi,
                               patterns[Sum(SubSeq(sizes, 1, gi - 1)) + mi])]]]

\* the rule specs of the table in the order the literal lists them
SpecsOf(ms) == Flatten([gi \in 1..Len(ms) |-> ms[gi].value])

\* window.matchers before line 7990 ran: the script has made no registry
Unassigned == <<>>

\* the script is about to be parsed
InitLoad ==
  \E sizes \in GroupSizes :
    \E flat \in [1..Sum(sizes) -> LoadSpecSamples],
       patterns \in [1..Sum(sizes) -> PatternSamples] :
      /\ matchers = LoadTableOf(sizes, flat, patterns)
      /\ windowMatchers = Unassigned
      /\ consoleErrors = <<>>
      /\ pc = "parse"
      /\ pos = 1
      /\ assigned = 0
      /\ builds = 0
      /\ firstRegistry = <<>>
      /\ lookedUp = NoLookup
      /\ addedGroup = ""
      /\ lastIndex = <<>>
      /\ tagSet = NoCall
      /\ firstCall = NoCall
      /\ verdict = NoVerdict
      /\ InitGenerators
      /\ copyArrays = NoArrays
      /\ InitContact
      /\ InitPicker(<<>>)

\* the script is parsed: every RegExp literal is compiled; a malformed one is
\* a SyntaxError of the script, none of whose statements runs
ParseScript ==
  /\ pc = "parse"
  /\ pc' = IF \E i \in 1..Len(SpecsOf(matchers)) :
                 /\ SpecsOf(matchers)[i].regex.literal
                 /\ CompileFails(SpecsOf(matchers)[i].regex)
            THEN "failed" ELSE "table"
  /\ UNCHANGED << matchers, windowMatchers, consoleErrors, pos, assigned, builds,
                  firstRegistry, lookedUp, addedGroup, engineVars >>

\* let matchers = { ... }: the next rule spec of the literal is evaluated; a
\* new RegExp(...) of a generator it calls may throw
EvaluateSpec ==
  /\ pc = "table" /\ pos <= Len(SpecsOf(matchers))
  /\ LET regex == SpecsOf(matchers)[pos].regex
     IN  IF ~regex.literal /\ CompileFails(regex)
           THEN pc' = "failed" /\ pos' = pos
           ELSE pc' = pc /\ pos' = pos + 1
  /\ UNCHANGED << matchers, windowMatchers, consoleErrors, assigned, builds,
                  firstRegistry, lookedUp, addedGroup, engineVars >>

\* window.matchers = {}; for (var target of allTargets) window.matchers[target] = {}
StartBuild ==
  /\ pc = "table" /\ pos > Len(SpecsOf(matchers))
  /\ windowMatchers' = EmptyRegistry
  /\ pc' = "build"
  /\ pos' = 1
  /\ UNCHANGED << matchers, consoleErrors, assigned, builds, firstRegistry,
                  lookedUp, addedGroup, engineVars >>

\* a reader takes window.matchers[target] once the script is over, completed
\* or thrown out of; without a window.matchers the read throws
LookupLoaded ==
  /\ pc \in {"done", "failed"}
  /\ \E target \in ProbeTargets :
       lookedUp' =
         IF windowMatchers = Unassigned
           THEN [target |-> target, defined |-> FALSE, threw |-> TRUE]
           ELSE Lookup(windowMatchers, target)
  /\ UNCHANGED << matchers, windowMatchers, consoleErrors, pc, pos, assigned,
                  builds, firstRegistry, addedGroup, engineVars >>

NextLoad ==
  \/ ParseScript
  \/ EvaluateSpec
  \/ StartBuild
  \/ SkipOld
  \/ Register
  \/ EndLoops
  \/ SortGroup
  \/ EndSort
  \/ LookupLoaded

\* the script from its parsing to the lookups of its readers
SpecLoad == InitLoad /\ [][NextLoad]_vars

\* ------------------------------------------- the submatcher generators
\* An array is known by its identity: its index in `arrays`. A generator is
\* given the identity of its `groups` array and stores it in every option
\* (groups: groups); an optional argument is <<>> when it is undefined and
\* <<v>> when v is passed.
MaxCalls == 2

\* a parameter with a default value: the default stands for undefined
Default(arg, d) == IF arg = <<>> THEN d ELSE arg[1]

\* the Korean labels are written by their code points
typeKoMap ==
  << [key |-> "STR", value |-> "uD798"], [key |-> "DEX", value |-> "uAE30"],
     [key |-> "QCK", value |-> "uC18D"], [key |-> "PSY", value |-> "uC2EC"],
     [key |-> "INT", value |-> "uC9C0"] >>

classKoMap ==
  << [key |-> "Fighter", value |-> "uACA9uD22C"],
     [key |-> "Shooter", value |-> "uC0ACuACA9"],
     [key |-> "Slasher", value |-> "uCC38uACA9"],
     [key |-> "Striker", value |-> "uD0C0uACA9"],
     [key |-> "Free Spirit", value |-> "uC790uC720"],
     [key |-> "Cerebral", value |-> "uBC15uC2DD"],
     [key |-> "Powerhouse", value |-> "uAC15uC778"],
     [key |-> "Driven", value |-> "uC57CuC2EC"] >>

orbKoMap ==
  << [key |-> "STR", value |-> "uD798"], [key |-> "DEX", value |-> "uAE30"],
     [key |-> "QCK", value |-> "uC18D"], [key |-> "PSY", value |-> "uC2EC"],
     [key |-> "INT", value |-> "uC9C0"], [key |-> "G", value |-> "G"],
     [key |-> "RCV", value |-> "uACE0uAE30"], [key |-> "TND", value |-> "uC5F0"],
     [key |-> "BOMB", value |-> "uD3EDuD0C4"], [key |-> "EMPTY", value |-> "uACF5uBC31"],
     [key |-> "SUPERBOMB", value |-> "uC288uD37C uD3EDuD0C4"],
     [key |-> "RAINBOW", value |-> "uBB34uC9C0uAC1C"],
     [key |-> "SEMLA", value |-> "uC148uB77C"], [key |-> "WANO", value |-> "u548C"] >>

rowKoMap ==
  << [key |-> "Top", value |-> "uC0C1uB2E8"], [key |-> "Middle", value |-> "uC911uB2E8"],
     [key |-> "Bottom", value |-> "uD558uB2E8"] >>

colKoMap ==
  << [key |-> "Left", value |-> "uC88CuCE21"], [key |-> "Right", value |-> "uC6B0uCE21"] >>

\* map[key]: undefined for a key the map does not have
MapGet(map, key) == IF Has(map, key) THEN Get(map, key) ELSE "undefined"

\* new RegExp(source, flags)
NewRegExp(source, flags) == [source |-> source, flags |-> flags]

\* (includeUniversal ? "|" + universalRegex : "")
UniversalPart(includeUniversal, universalRegex) ==
  IF includeUniversal THEN "|" \o universalRegex ELSE ""

\* includes(): the array has the element
Includes(arr, x) == \E i \in 1..Len(arr) : arr[i] = x

\* the option object most generators push
OptionObject(description, source, cssClass, groups) ==
  [type |-> "option", description |-> description,
   regex |-> NewRegExp(source, "i"), cssClasses |-> <<cssClass>>, groups |-> groups]

\* lines 191-212
createTypesSubmatchers(groups, includeUniversal, universalRegex) ==
  LET universal == UniversalPart(Default(includeUniversal, TRUE),
                                 Default(universalRegex, "all|type"))
  IN  [k \in 1..Len(types) |->
         OptionObject(MapGet(typeKoMap, types[k]),
                      "\\[" \o types[k] \o "\\]" \o universal,
                      IF k - 1 < 3 THEN "min-width-4" ELSE "min-width-6",
                      groups)]

\* lines 214-233
createClassesSubmatchers(groups, includeUniversal, universalRegex) ==
  LET universal == UniversalPart(Default(includeUniversal, TRUE),
                                 Default(universalRegex, "uBAA8uB450"))
  IN  [k \in 1..Len(classes) |->
         OptionObject(MapGet(classKoMap, classes[k]),
                      classes[k] \o universal, "min-width-6", groups)]

\* lines 235-258
createOrbsSubmatchers(orbs, groups, includeUniversal, universalRegex) ==
  LET universal == UniversalPart(Default(includeUniversal, TRUE),
                                 Default(universalRegex, "uBAA8uB450"))
      minWidth(orb) == IF Len(orb) <= 3 THEN "2"
                       ELSE IF Len(orb) <= 5 THEN "3" ELSE "6"
  IN  [k \in 1..Len(orbs) |->
         OptionObject(IF Has(orbKoMap, orbs[k]) THEN Get(orbKoMap, orbs[k]) ELSE orbs[k],
                      "\\[" \o orbs[k] \o "\\]" \o universal,
                      "min-width-" \o minWidth(orbs[k]), groups)]

\* const rows, const columns of lines 267-268
rows == << "Top", "Middle", "Bottom" >>
columns == << "Left", "Right" >>

\* the six options of the branch without rows and columns (lines 309-374):
\* description and the head of the pattern
CellOptions ==
  << <<"uCE5CuAD6C uC120uC7A5", "left column|top(?! right)|Friend Captain">>,
     <<"uC120uC7A5", "right column|top(?! left)|(?:^|(?!end ).{4})Captain">>,
     <<"uC911uB2E8 uC88CuCE21", "left column|middle(?! right)">>,
     <<"uC911uB2E8 uC6B0uCE21", "right column|middle(?! left)">>,
     <<"uD558uB2E8 uC88CuCE21", "left column|bottom(?! right)">>,
     <<"uD558uB2E8 uC6B0uCE21", "right column|bottom(?! left)">> >>

\* the three options after the rows and columns (lines 377-409): the name
\* excludedSubmatchers knows them by, description and head of the pattern
TrailingOptions ==
  << <<"Adjacent", "uC778uC811", "adjacent">>,
     <<"Selected", "uC120uD0DD", "selected">>,
     <<"Self", "uC790uC2E0", "this|own|supported">> >>

\* lines 260-417
createPositionsSubmatchers(groups, includeUniversal, universalRegex, excludedSubmatchers, useRowsAndColumns) ==
  LET universal == UniversalPart(Default(includeUniversal, TRUE),
                                 Default(universalRegex, "uBAA8uB450"))
      excluded == Default(excludedSubmatchers, <<>>)
      keptRows == SelectSeq(rows, LAMBDA row : ~Includes(excluded, row))
      keptColumns == SelectSeq(columns, LAMBDA col : ~Includes(excluded, col))
      keptTrailing == SelectSeq(TrailingOptions, LAMBDA t : ~Includes(excluded, t[1]))
      byRows ==
        [k \in 1..Len(keptRows) |->
           OptionObject(MapGet(rowKoMap, keptRows[k]), keptRows[k] \o universal,
                        "min-width-4", groups)]
        \o [k \in 1..Len(keptColumns) |->
              OptionObject(MapGet(colKoMap, keptColumns[k]), keptColumns[k] \o universal,
                           "min-width-6", groups)]
      byCells ==
        [k \in 1..Len(CellOptions) |->
           OptionObject(CellOptions[k][1], CellOptions[k][2] \o universal,
                        "min-width-6", groups)]
      trailing ==
        [k \in 1..Len(keptTrailing) |->
           OptionObject(keptTrailing[k][2], keptTrailing[k][3] \o universal,
                        "min-width-4", groups)]
  IN  (IF Default(useRowsAndColumns, TRUE) THEN byRows ELSE byCells) \o trailing

\* lines 419-431: universalRegex || "all|type" also replaces the empty string
createUniversalSubmatcher(groups, universalRegex) ==
  LET given == Default(universalRegex, "all|type")
  IN  << [type |-> "option", description |-> "uBAA8uB4E0 uC18DuC131",
          regex |-> NewRegExp(IF given = "" THEN "all|type" ELSE given, "i"),
          groups |-> groups] >>

\* ---- RegExp.prototype.test on a pattern made from a source string
\* The part of the pattern language the generated sources use: a character
\* stands for itself, \c for the character c, . for any character, ^ and $
\* for the ends of the text, | separates alternatives, and an atom may be
\* followed by ?, * or +.
CharAt(s, i) == SubSeq(s, i, i)

Quantifiers == {"?", "*", "+"}

\* the positions of the | that separate the alternatives of a source
RECURSIVE BarsFrom(_, _)
BarsFrom(source, i) ==
  IF i > Len(source) THEN <<>>
  ELSE IF CharAt(source, i) = "\\" THEN BarsFrom(source, i + 2)
  ELSE IF CharAt(source, i) = "|" THEN <<i>> \o BarsFrom(source, i + 1)
  ELSE BarsFrom(source, i + 1)

\* the alternatives of a source, in order
Alternatives(source) ==
  LET bars == <<0>> \o BarsFrom(source, 1) \o <<Len(source) + 1>>
  IN  [k \in 1..(Len(bars) - 1) |-> SubSeq(source, bars[k] + 1, bars[k + 1] - 1)]

\* one character of the text against the atom at position i of an alternative
AtomMatches(alt, i, c, ignoreCase) ==
  LET a == CharAt(alt, i)
      lit == IF a = "\\" THEN CharAt(alt, i + 1) ELSE a
  IN  IF a = "." THEN TRUE
      ELSE IF ignoreCase THEN ToLower(lit) = ToLower(c) ELSE lit = c

\* the alternative from its position i on matches the text from position p on
RECURSIVE MatchFrom(_, _, _, _, _)
MatchFrom(alt, i, text, p, ignoreCase) ==
  IF i > Len(alt) THEN TRUE
  ELSE
    LET a == CharAt(alt, i)
        width == IF a = "\\" THEN 2 ELSE 1
        q == IF i + width <= Len(alt) /\ CharAt(alt, i + width) \in Quantifiers
               THEN CharAt(alt, i + width) ELSE ""
        next == i + width + (IF q = "" THEN 0 ELSE 1)
        run(n) == \A j \in p..(p + n - 1) : AtomMatches(alt, i, CharAt(text, j), ignoreCase)
    IN  CASE a = "^" -> p = 1 /\ MatchFrom(alt, i + 1, text, p, ignoreCase)
          [] a = "$" -> p = Len(text) + 1 /\ MatchFrom(alt, i + 1, text, p, ignoreCase)
          [] OTHER ->
               \E n \in 0..(Len(text) - p + 1) :
                 /\ CASE q = "" -> n = 1
                      [] q = "?" -> n <= 1
                      [] q = "*" -> TRUE
                      [] q = "+" -> n >= 1
                 /\ run(n)
                 /\ MatchFrom(alt, next, text, p + n, ignoreCase)

\* regex.test(text): some alternative matches somewhere in the text
RegExpTest(regex, text) ==
  \E k \in 1..Len(Alternatives(regex.source)), p \in 1..(Len(text) + 1) :
    MatchFrom(Alternatives(regex.source)[k], 1, text, p, regex.flags = "i")

\* what a generator call leaves of an array it reads (types, classes, the
\* given groups): for...of, includes() and `groups: groups` write nothing
\* (the call pushes onto the array it reads)
arrayAfterCallPushed(arr) == Append(arr, 0)

arrayAfterCall(arr) == arr

\* the arguments of the calls
GroupsSamples == { <<1>>, <<2, 3>> }
IncludeUniversalSamples == { <<>>, <<FALSE>> }
UniversalRegexSamples == { <<>>, <<"all|^$">> }
\* orbs lists: ids of orbKoMap, an id it does not have, and an id with a
\* character the pattern language reads as "any character"
OrbsSamples == { <<"STR", "RAINBOW", "G">>, <<"SUPERBOMB", "BLOCK">>, <<"S.R">> }
ExcludedSamples == { <<>>, << <<"Adjacent", "Selected">> >>, << <<"Top", "Left", "Self">> >> }
UseRowsAndColumnsSamples == { <<>>, <<FALSE>> }

\* the groups arrays earlier calls were given
GivenGroups == {calls[i].groups : i \in 1..Len(calls)}

\* the options of an array with the contents of their groups array in place
\* of its identity
Contents(heap, options) ==
  [k \in 1..Len(options) |-> [options[k] EXCEPT !.groups = heap[options[k].groups]]]

\* the `groups` argument of a call: a new array literal (fresh is its
\* contents) or an array an earlier call was given (old is its identity)
GroupsArguments ==
  {[fresh |-> <<g>>, old |-> 0] : g \in GroupsSamples}
    \cup {[fresh |-> <<>>, old |-> id] : id \in GivenGroups}

\* the identity of the array passed as `groups`
GroupsId(g) == IF g.fresh # <<>> THEN Len(arrays) + 1 ELSE g.old

\* a call that returned the array result: the given array and the result are
\* in `arrays`; the call is logged with its arguments, the identity of its
\* result and what the result held when it returned
Called(fn, g, args, result) ==
  /\ Len(calls) < MaxCalls
  /\ LET given == IF g.fresh # <<>> THEN Append(arrays, g.fresh[1]) ELSE arrays
         gid == GroupsId(g)
         heap == Append([given EXCEPT ![gid] = arrayAfterCall(@)], result)
     IN  /\ arrays' = heap
         /\ calls' = Append(calls,
                       [fn |-> fn, groups |-> gid, given |-> given[gid], args |-> args,
                        result |-> Len(heap), returned |-> Contents(heap, result)])
  /\ types' = arrayAfterCall(types)
  /\ classes' = arrayAfterCall(classes)
  /\ UNCHANGED << registryVars, lastIndex, tagSet, firstCall, verdict, pageVars, copyArrays >>

CallTypes ==
  \E g \in GroupsArguments, iu \in IncludeUniversalSamples, ur \in UniversalRegexSamples :
    Called("createTypesSubmatchers", g, <<iu, ur>>,
           createTypesSubmatchers(GroupsId(g), iu, ur))

CallClasses ==
  \E g \in GroupsArguments, iu \in IncludeUniversalSamples, ur \in UniversalRegexSamples :
    Called("createClassesSubmatchers", g, <<iu, ur>>,
           createClassesSubmatchers(GroupsId(g), iu, ur))

CallOrbs ==
  \E g \in GroupsArguments, orbs \in OrbsSamples,
     iu \in IncludeUniversalSamples, ur \in UniversalRegexSamples :
    Called("createOrbsSubmatchers", g, <<iu, ur, <<orbs>> >>,
           createOrbsSubmatchers(orbs, GroupsId(g), iu, ur))

CallPositions ==
  \E g \in GroupsArguments, iu \in IncludeUniversalSamples, ur \in UniversalRegexSamples,
     ex \in ExcludedSamples, rc \in UseRowsAndColumnsSamples :
    Called("createPositionsSubmatchers", g, <<iu, ur, ex, rc>>,
           createPositionsSubmatchers(GroupsId(g), iu, ur, ex, rc))

CallUniversal ==
  \E g \in GroupsArguments, ur \in UniversalRegexSamples \cup { <<"">> } :
    Called("createUniversalSubmatcher", g, <<ur>>,
           createUniversalSubmatcher(GroupsId(g), ur))

NextGenerators ==
  \/ CallTypes
  \/ CallClasses
  \/ CallOrbs
  \/ CallPositions
  \/ CallUniversal

\* the table literal calls the generators, one call after the other
SpecGenerators == InitWith(<<>>) /\ [][NextGenerators]_vars

\* ------------------------------------------------- the engine at work
\* the ids of the RegExp objects of the table
EngineRegExpIds ==
  UNION { {EngineTable[gi].value[mi].regex.id : mi \in 1..Len(EngineTable[gi].value)} :
            gi \in 1..Len(EngineTable) }

\* the rule names a filter may select
FilterRuleNames ==
  UNION { {EngineTable[gi].value[mi].name : mi \in 1..Len(EngineTable[gi].value)} :
            gi \in 1..Len(EngineTable) }

InitEngine == InitWithIndex(EngineTable, [id \in EngineRegExpIds |-> 0])

\* the texts classified again and again: those of six words or more
RepeatedTexts == {text \in TextSamples : Len(text) >= 6}

\* classify(target, text) is called once the registry is built
ClassifyCall(texts, remember) ==
  /\ pc = "done"
  /\ \E target \in ClassifyTargets, text \in texts :
       LET r == classify(windowMatchers, target, text, lastIndex)
           c == [target |-> target, text |-> text, tags |-> r.tags]
       IN  /\ tagSet' = c
           /\ lastIndex' = r.lastIndex
           /\ firstCall' =
                IF firstCall # NoCall THEN KeptAfter(firstCall, c)
                ELSE IF remember THEN Kept(c) ELSE NoCall
  /\ verdict' = NoVerdict
  /\ UNCHANGED << registryVars, generatorVars, pageVars, copyArrays >>

\* a call, kept or not for the comparison with later calls
Classify ==
  \E remember \in BOOLEAN : (remember => firstCall = NoCall) /\ ClassifyCall(RepeatedTexts, remember)

\* the text of an ability is classified once and its Tags kept
TagAbility == tagSet = NoCall /\ ClassifyCall(TextSamples, FALSE)

\* evaluateFilter on the Tags of the last classification
EvaluateFilter ==
  /\ pc = "done" /\ tagSet # NoCall /\ verdict = NoVerdict
  /\ \E target \in {"captain", "special"}, group \in {GroupNames[1], GroupNames[2]},
        ruleName \in FilterRuleNames, constraints \in ConstraintSamples :
       verdict' =
         [asked |-> TRUE, target |-> target, group |-> group,
          ruleName |-> ruleName, constraints |-> constraints,
          result |-> evaluateFilter(tagSet.tags, target, group, ruleName, constraints)]
  /\ UNCHANGED << registryVars, lastIndex, tagSet, firstCall, generatorVars, pageVars, copyArrays >>

NextClassify ==
  \/ SkipOld
  \/ Register
  \/ EndLoops
  \/ SortGroup
  \/ EndSort
  \/ Classify

\* the registry is built from the table with patterns, then texts are classified
SpecClassify == InitEngine /\ [][NextClassify]_vars

\* ------------------------------------------------- readers and rebuilds
\* one more classification, after whatever calls came before
ClassifyAgain == ClassifyCall(TextSamples, FALSE)

NextReaders ==
  \/ SkipOld
  \/ Register
  \/ EndLoops
  \/ SortGroup
  \/ EndSort
  \/ Rebuild
  \/ LookupTarget
  \/ ClassifyAgain

\* the registry is built, read by lookups and classifications, and built
\* again; a build is one run of the script's statements, which no reader
\* interrupts
SpecReaders == InitEngine /\ [][NextReaders]_vars

NextFilter ==
  \/ SkipOld
  \/ Register
  \/ EndLoops
  \/ SortGroup
  \/ EndSort
  \/ TagAbility
  \/ EvaluateFilter

\* ... and the Tags of a text are filtered
SpecFilter == InitEngine /\ [][NextFilter]_vars

\* ------------------------------------------------------- the build so far
\* what one iteration of the build loops works on
IterationOf(ms, it) ==
  [group |-> ms[it[1]].key,
   matcher |-> ms[it[1]].value[it[2]],
   target |-> ms[it[1]].value[it[2]].targets[it[3]]]

\* the iterations the running (or completed) build has passed, in order
Passed ==
  LET its == BuildIterations(matchers)
      n == IF pc = "build" THEN pos - 1 ELSE Len(its)
  IN  [k \in 1..n |-> IterationOf(matchers, its[k])]

\* the iterations among `passed` that stored a rule (the spec is not legacy)
Stored(passed) == {k \in 1..Len(passed) : ~IsOldName(passed[k].matcher.name)}

\* the iterations among `passed` that stored a rule under (target, group, name)
Writers(passed, target, group, name) ==
  { k \in Stored(passed) :
      /\ passed[k].target = target
      /\ passed[k].group = group
      /\ newName(passed[k].matcher.name, target) = name }

Max(S) == CHOOSE x \in S : \A y \in S : y <= x

\* all (target, group, name) keys of a registry
EntryKeys(reg) ==
  UNION { UNION { { <<reg[ti].key, reg[ti].value[gi].key, reg[ti].value[gi].value[ni].key>> :
                      ni \in 1..Len(reg[ti].value[gi].value) } :
                  gi \in 1..Len(reg[ti].value) } :
          ti \in 1..Len(reg) }

Entry(reg, e) == Get(Get(Get(reg, e[1]), e[2]), e[3])

\* the pattern and the submatchers of a rule or rule spec
Payload(m) ==
  [regex |-> m.regex,
   submatchers |-> IF "submatchers" \in DOMAIN m THEN <<m.submatchers>> ELSE <<>>]

\* C1: every entry registry[target][group][name] carries the pattern and the
\* submatchers of the spec that was registered last under that key, whatever
\* specs were registered under it before
C1_LastWriterWins ==
  LET passed == Passed
  IN  \A e \in EntryKeys(windowMatchers) :
        LET ws == Writers(passed, e[1], e[2], e[3])
        IN  /\ ws # {}
            /\ Payload(Entry(windowMatchers, e)) = Payload(passed[Max(ws)].matcher)

\* C1 witness: the build is complete and two different specs were registered
\* under one key; the entry holds the later one's pattern, not the earlier one's
C1_Witness ==
  /\ pc = "done"
  /\ LET passed == Passed
     IN  \E e \in EntryKeys(windowMatchers) :
           \E k1, k2 \in Writers(passed, e[1], e[2], e[3]) :
             /\ k1 < k2
             /\ passed[k1].matcher.regex # passed[k2].matcher.regex
             /\ Entry(windowMatchers, e).regex = passed[k2].matcher.regex

\* the name an iteration stores its rule under
StoredName(passed, k) == newName(passed[k].matcher.name, passed[k].target)

\* the iterations among `passed` whose store found a rule already there
Overwrites(passed) ==
  { k \in Stored(passed) :
      \E j \in Stored(passed) :
        /\ j < k
        /\ passed[j].target = passed[k].target
        /\ passed[j].group = passed[k].group
        /\ StoredName(passed, j) = StoredName(passed, k) }

\* C2: the diagnostics are exactly the names of the overwriting registrations,
\* one each and in order (so none for any other registration); the build goes
\* on after a collision: every passed registration has stored its rule, and
\* the completed build has passed every iteration
C2_CollisionNotFatal ==
  LET passed == Passed
      names == [k \in 1..Len(passed) |-> StoredName(passed, k)]
  IN  /\ consoleErrors = Pick(names, Overwrites(passed))
      /\ assigned = Cardinality(Stored(passed))
      /\ \A k \in Stored(passed) :
           <<passed[k].target, passed[k].group, names[k]>> \in EntryKeys(windowMatchers)
      /\ pc # "build" => Len(passed) = Len(BuildIterations(matchers))

\* C2 witness: a completed build that emitted a diagnostic and registered a
\* rule, under another key, after the colliding registration
C2_Witness ==
  /\ pc = "done"
  /\ consoleErrors # <<>>
  /\ LET passed == Passed
     IN  \E k \in Overwrites(passed) :
           \E later \in Stored(passed) \ Overwrites(passed) :
             /\ later > k
             /\ <<passed[later].target, passed[later].group, StoredName(passed, later)>>
                  \in EntryKeys(windowMatchers)

\* C3: in the shipped table rule names are unique per (target, group) after
\* placeholder substitution, so the build overwrites no entry (and emits no
\* "Duplicate matcher" diagnostic)
C3_ShippedNamesUnique ==
  /\ Overwrites(Passed) = {}
  /\ consoleErrors = <<>>

\* the (group index, spec index) positions of a rule-spec table
SpecPositions(ms) ==
  UNION { { <<gi, mi>> : mi \in 1..Len(ms[gi].value) } : gi \in 1..Len(ms) }

\* the keys under which a registry holds a rule with the pattern of `spec`
KeysHolding(reg, spec) ==
  { e \in EntryKeys(reg) : Entry(reg, e).regex = spec.regex }

\* C4: with includeOldFilters = false the built registry holds no rule of a
\* legacy spec (name beginning with "old", any letter case) under any target
\* or group, and holds every other spec under each of its declared targets
C4_LegacyExcluded ==
  pc = "done" =>
    \A p \in SpecPositions(matchers) :
      LET group == matchers[p[1]].key
          spec == matchers[p[1]].value[p[2]]
      IN  IF IsOldName(spec.name)
            THEN KeysHolding(windowMatchers, spec) = {}
            ELSE \A i \in 1..Len(spec.targets) :
                   <<spec.targets[i], group, newName(spec.name, spec.targets[i])>>
                     \in KeysHolding(windowMatchers, spec)

\* the pieces of a name between its placeholder tokens, left to right
RECURSIVE PiecesFrom(_, _, _)
PiecesFrom(name, i, piece) ==
  IF i > Len(name) THEN <<piece>>
  ELSE IF HasAt(name, Placeholder, i)
    THEN <<piece>> \o PiecesFrom(name, i + Len(Placeholder), <<>>)
    ELSE PiecesFrom(name, i + 1, Append(piece, name[i]))

RECURSIVE JoinWith(_, _)
JoinWith(pieces, label) ==
  IF Len(pieces) = 1 THEN pieces[1]
  ELSE pieces[1] \o label \o JoinWith(Tail(pieces), label)

\* the plural label a target is rendered as in a rule name
PluralLabel(target) ==
  IF target = "superSpecial"
    THEN <<"s","u","p","e","r"," ","s","p","e","c","i","a","l","s">>
    ELSE TargetChars[target] \o <<"s">>

ContainsPlaceholder(name) == \E i \in 1..Len(name) : HasAt(name, Placeholder, i)

\* the rule spec a rule was copied from (its RegExp object tells)
SpecOf(rule) == matchers[rule.regex[1]].value[rule.regex[2]]

\* C5: the name a rule is stored under (key and name field) is its spec's name
\* with every placeholder replaced by "super specials" under target
\* superSpecial and by the target followed by "s" under any other target; no
\* stored name contains the placeholder
C5_NameTemplating ==
  \A e \in EntryKeys(windowMatchers) :
    LET rule == Entry(windowMatchers, e)
    IN  /\ e[3] = JoinWith(PiecesFrom(SpecOf(rule).name, 1, <<>>), PluralLabel(e[1]))
        /\ rule.name = e[3]
        /\ ~ContainsPlaceholder(e[3])

\* C5 witness: a completed build stored one spec whose name has two
\* placeholders under superSpecial and under another target
C5_Witness ==
  /\ pc = "done"
  /\ \E e1, e2 \in EntryKeys(windowMatchers) :
       /\ e1[1] = "superSpecial" /\ e2[1] # "superSpecial"
       /\ Entry(windowMatchers, e1).regex = Entry(windowMatchers, e2).regex
       /\ Len(PiecesFrom(SpecOf(Entry(windowMatchers, e1)).name, 1, <<>>)) = 3
       /\ e1[3] = SuperSpecialsLabel \o <<"-">> \o SuperSpecialsLabel
       /\ e2[3] = TargetChars[e2[1]] \o <<"s", "-">> \o TargetChars[e2[1]] \o <<"s">>

\* rule is a copy of spec made for (target, group): it has the spec's fields
\* and target and group, and differs from the spec in nothing but the name
IsCopyOf(rule, spec, target, group) ==
  /\ DOMAIN rule = (DOMAIN spec) \cup {"target", "group"}
  /\ rule.target = target
  /\ rule.group = group
  /\ \A f \in (DOMAIN spec) \ {"name"} : rule[f] = spec[f]

\* what the registry holds of each spec: copies under targets of the spec and
\* under its group only, at most one per target, each stored under its own
\* target and group
C6_CopiesInPlace ==
  \A p \in SpecPositions(matchers) :
    LET group == matchers[p[1]].key
        spec == matchers[p[1]].value[p[2]]
        held == KeysHolding(windowMatchers, spec)
    IN  /\ \A e \in held :
             /\ \E i \in 1..Len(spec.targets) : spec.targets[i] = e[1]
             /\ e[2] = group
             /\ IsCopyOf(Entry(windowMatchers, e), spec, e[1], group)
        /\ \A e1, e2 \in held : e1[1] = e2[1] => e1 = e2

\* what one registration does: it adds or replaces exactly one rule, under the
\* target and the group of the iteration, a copy of the iteration's spec, and
\* leaves every other rule as it was
C6_OneCopyStored ==
  (pc = "build" /\ pos' = pos + 1 /\ ~IsSkipped(CurMatcher)) =>
    \E e \in EntryKeys(windowMatchers') :
      /\ e[1] = CurTarget /\ e[2] = CurGroup
      /\ IsCopyOf(Entry(windowMatchers', e), CurMatcher, CurTarget, CurGroup)
      /\ EntryKeys(windowMatchers') = EntryKeys(windowMatchers) \cup {e}
      /\ \A o \in EntryKeys(windowMatchers) \ {e} :
           Entry(windowMatchers', o) = Entry(windowMatchers, o)

\* the copy a registration stored stays in the registry, under the target and
\* the group of its iteration, as long as no later registration stores a rule
\* under the same name there
C6_CopiesKept ==
  LET passed == Passed
  IN  \A k \in Stored(passed) :
        LET name == StoredName(passed, k)
        IN  k = Max(Writers(passed, passed[k].target, passed[k].group, name)) =>
              /\ <<passed[k].target, passed[k].group, name>> \in EntryKeys(windowMatchers)
              /\ IsCopyOf(Entry(windowMatchers, <<passed[k].target, passed[k].group, name>>),
                          passed[k].matcher, passed[k].target, passed[k].group)

IsDeclared(target) == \E i \in 1..Len(allTargets) : allTargets[i] = target

\* some passed iteration stored a rule under the target
HasRules(target) ==
  LET passed == Passed IN \E k \in Stored(passed) : passed[k].target = target

LexBefore(a, b) ==
  \E i \in 1..Len(b) :
    /\ \A j \in 1..(i - 1) : j <= Len(a) /\ a[j] = b[j]
    /\ i - 1 <= Len(a)
    /\ (i = Len(a) + 1 \/ CharCode(a[i]) < CharCode(b[i]))

\* the names of every (target, group) enumerate in ascending order
NamesAscending(reg) ==
  \A ti \in 1..Len(reg) :
    \A gi \in 1..Len(reg[ti].value) :
      LET names == Keys(reg[ti].value[gi].value)
      IN  \A i \in 1..(Len(names) - 1) : LexBefore(names[i], names[i + 1])

\* a step of the sort loops keeps every name and the rule it maps to
C8_SortKeepsRules ==
  pc = "sort" =>
    /\ EntryKeys(windowMatchers') = EntryKeys(windowMatchers)
    /\ \A e \in EntryKeys(windowMatchers) :
         Entry(windowMatchers', e) = Entry(windowMatchers, e)

\* C8: once the registry is built (alphabeticalOrder on), the rule names of
\* every (target, group) enumerate in ascending lexicographic order, and the
\* sorting changed neither the names of any group nor the rule of any name
C8_SortedByName ==
  /\ [](pc = "done" => NamesAscending(windowMatchers))
  /\ [][C8_SortKeepsRules]_vars

\* C8 witness: a completed build in which a group got a name after a name that
\* sorts later, so that sorting had to reorder it
C8_Witness ==
  /\ pc = "done"
  /\ LET passed == Passed
     IN  \E k1, k2 \in Stored(passed) :
           /\ k1 < k2
           /\ passed[k1].target = passed[k2].target
           /\ passed[k1].group = passed[k2].group
           /\ LexBefore(StoredName(passed, k2), StoredName(passed, k1))
           /\ Len(Get(Get(windowMatchers, passed[k1].target), passed[k1].group)) >= 2

\* C9: a second build from the same rule-spec table leaves window.matchers
\* structurally identical to what the first build left: the same targets,
\* groups and names in the same order, and the same rule under each name
C9_RebuildIdentical ==
  (pc = "done" /\ builds >= 2) => windowMatchers = firstRegistry

\* C9 witness: a second build is complete; the registry holds a group with two
\* names and a rule with submatchers
C9_Witness ==
  /\ pc = "done" /\ builds = 2
  /\ \E e1, e2 \in EntryKeys(windowMatchers) :
       /\ e1[1] = e2[1] /\ e1[2] = e2[2] /\ e1[3] # e2[3]
       /\ "submatchers" \in DOMAIN Entry(windowMatchers, e1)

\* the groups of a target other than `group`, with their names and rules, in
\* order (no groups for a target the registry does not have)
GroupsExcept(reg, target, group) ==
  IF Has(reg, target)
    THEN SelectSeq(Get(reg, target), LAMBDA g : g.key # group)
    ELSE <<>>

\* after a rule spec was added to a group and the registry built again, every
\* other group is, under every target, as the build without that spec left it
C10_OtherGroupsSame ==
  (pc = "done" /\ addedGroup # "") =>
    \A target \in KeySet(windowMatchers) \cup KeySet(firstRegistry) :
      GroupsExcept(windowMatchers, target, addedGroup)
        = GroupsExcept(firstRegistry, target, addedGroup)

\* a registration changes rules of the group of its spec only
C10_RegisterInGroup ==
  (pc = "build" /\ pos' = pos + 1) =>
    \A e \in EntryKeys(windowMatchers) \cup EntryKeys(windowMatchers') :
      e[2] # CurGroup =>
        /\ e \in EntryKeys(windowMatchers) \cap EntryKeys(windowMatchers')
        /\ Entry(windowMatchers', e) = Entry(windowMatchers, e)

\* C10: adding a rule spec to group G leaves the registry entries of every
\* other group unchanged under every target (so whatever is computed from the
\* rules that existed before, such as their Tags for a text, is unchanged)
C10_Independence == [](C10_OtherGroupsSame) /\ [][C10_RegisterInGroup]_vars

\* C10 witness: the spec was added and the registry built again; under one
\* target the added group and another group hold a rule of the same name
C10_Witness ==
  /\ pc = "done" /\ addedGroup # ""
  /\ \E e1, e2 \in EntryKeys(windowMatchers) :
       /\ e1[2] = addedGroup /\ e2[2] # addedGroup
       /\ e1[1] = e2[1] /\ e1[3] = e2[3]
       /\ Entry(windowMatchers, e1).regex = <<0, 0>>

\* ------------------------------------------------------------ the engine
\* C11: determinism of classification: a classify(T, S) call returns the Tags
\* an earlier classify(T, S) call returned (same rules, same submatcher
\* values), whatever calls were made in between
C11_Determinism ==
  (firstCall # NoCall /\ tagSet.target = firstCall.target
     /\ tagSet.text = firstCall.text) =>
    tagSet.tags = firstCall.tags

\* C11 witness: a call that produced Tags was made again after a call for
\* another target or text
C11_Witness ==
  /\ firstCall # NoCall /\ firstCall.repeated
  /\ tagSet.target = firstCall.target /\ tagSet.text = firstCall.text
  /\ Len(tagSet.tags) >= 2

\* the rules of the classified target, as a set
RuleSet == {RulesOf(windowMatchers, tagSet.target)[i] :
              i \in 1..Len(RulesOf(windowMatchers, tagSet.target))}

\* the match of a rule's pattern on the classified text, by itself
MatchOf(rule) == Exec(rule.regex, tagSet.text, 0)

\* the Tags of the last classification that rule produced
TagsOfRule(rule) ==
  {i \in 1..Len(tagSet.tags) :
     /\ tagSet.tags[i].ruleName = rule.name
     /\ tagSet.tags[i].group = rule.group
     /\ tagSet.tags[i].target = rule.target}

\* the Number submatchers of a rule (positions in its list)
NumberSubs(rule) ==
  {k \in 1..Len(SubmatchersOf(rule)) : SubmatchersOf(rule)[k].type = "number"}

\* the bound groups of a submatcher that captured text, in bound order
CapturingGroups(sub, groups) ==
  SelectSeq(sub.groups, LAMBDA g : groups[g].def /\ groups[g].text # <<>>)

Unknown == <<"?">>

\* C12: sentinel normalization: when the captured word a Number submatcher
\* reads is "?", the Tag is recorded and the number is 0; when it is
\* "completely" or "99+", the Tag is recorded and the number is +infinity,
\* greater than every finite number
C12_SentinelNormalization ==
  \A rule \in RuleSet :
    \A k \in NumberSubs(rule) :
      LET sub == SubmatchersOf(rule)[k]
          m == MatchOf(rule)
          cap == CapturingGroups(sub, m.groups)
          word == m.groups[cap[1]].text[1]
      IN  (pc = "done" /\ tagSet # NoCall /\ m.matched /\ cap # <<>>
             /\ word \in {Unknown, Completely, NinetyNinePlus}) =>
            /\ TagsOfRule(rule) # {}
            /\ \A i \in TagsOfRule(rule) :
                 LET n == Get(tagSet.tags[i].submatcherValues, sub.description).low
                 IN  IF word = Unknown
                       THEN ~n.inf /\ ~n.nan /\ n.v = 0
                       ELSE /\ n.inf
                            /\ \A v \in 0..(100 * Tenths) : Compare(n, ">", Finite(v))

\* C12 witness: "by ? x for 99+ turns" is classified: the multiplier is 0, the
\* turns are infinite
C12_Witness ==
  /\ pc = "done" /\ tagSet.target = "captain" /\ Len(tagSet.tags) = 2
  /\ Get(tagSet.tags[1].submatcherValues, "multiplier").low = Finite(0)
  /\ Get(tagSet.tags[2].submatcherValues, "turns").low = Infinity
  /\ \E i \in 1..Len(tagSet.text) : tagSet.text[i] = Unknown
  /\ \E i \in 1..Len(tagSet.text) : tagSet.text[i] = NinetyNinePlus

\* position in the bound-group list of the first group that captured text
LowPosition(sub, groups) ==
  CHOOSE k \in 1..Len(sub.groups) :
    /\ sub.groups[k] = CapturingGroups(sub, groups)[1]
    /\ \A j \in 1..(k - 1) : sub.groups[j] # sub.groups[k]

\* C13: range collapse: for a Number submatcher with a (low, high) pair of
\* bound groups, the range is [low, low] when the low group captured and the
\* high group did not, and [low, high] when both captured
C13_RangeCollapse ==
  \A rule \in RuleSet :
    \A k \in NumberSubs(rule) :
      LET sub == SubmatchersOf(rule)[k]
          m == MatchOf(rule)
          p == LowPosition(sub, m.groups)
          low == m.groups[sub.groups[p]]
          high == m.groups[sub.groups[p + 1]]
      IN  (pc = "done" /\ tagSet # NoCall /\ m.matched
             /\ CapturingGroups(sub, m.groups) # <<>> /\ p < Len(sub.groups)) =>
            \A i \in TagsOfRule(rule) :
              LET n == Get(tagSet.tags[i].submatcherValues, sub.description)
              IN  /\ n.low = NormalizeNumber(low.text[1])
                  /\ n.high = IF high.def /\ high.text # <<>>
                                THEN NormalizeNumber(high.text[1]) ELSE n.low

\* C13 witness: "by 2 x for 3 turns": neither high group captured, the
\* multiplier is [2, 2] and the turns are [3, 3]
C13_Witness ==
  /\ pc = "done" /\ tagSet.target = "captain" /\ Len(tagSet.tags) = 2
  /\ Get(tagSet.tags[1].submatcherValues, "multiplier")
       = [kind |-> "number", low |-> Finite(2 * Tenths), high |-> Finite(2 * Tenths)]
  /\ Get(tagSet.tags[2].submatcherValues, "turns")
       = [kind |-> "number", low |-> Finite(3 * Tenths), high |-> Finite(3 * Tenths)]

\* the Number and Text submatchers of a rule (positions in its list)
ValueSubs(rule) ==
  {k \in 1..Len(SubmatchersOf(rule)) : SubmatchersOf(rule)[k].type \in {"number", "text"}}

\* the capture groups with every group of `erased` turned into one that did
\* not capture
Without(groups, erased) ==
  [g \in 1..Len(groups) |-> IF g \in erased THEN NoCapture ELSE groups[g]]

Reverse(s) == [i \in 1..Len(s) |-> s[Len(s) + 1 - i]]

\* the submatcher with its bound groups declared in the opposite order
Swapped(sub) == [sub EXCEPT !.groups = Reverse(sub.groups)]

\* swapping the declared order changes the value only when more than one
\* bound group captured
C14_SwapNeedsTwoCaptures(sub, groups) ==
  Len(CapturingGroups(sub, groups)) <= 1 =>
    Extract(Swapped(sub), groups) = Extract(sub, groups)

OptionSubs(rule) ==
  {k \in 1..Len(SubmatchersOf(rule)) : SubmatchersOf(rule)[k].type = "option"}

\* the text the bound groups of a submatcher captured; nothing for a group
\* that did not capture
CapturedText(sub, groups) ==
  LET texts == [j \in 1..Len(sub.groups) |->
                  IF groups[sub.groups[j]].def THEN groups[sub.groups[j]].text ELSE <<>>]
  IN  Flatten(texts)

GroupPosition(group) ==
  LET ks == Keys(Get(windowMatchers, tagSet.target))
  IN  CHOOSE i \in 1..Len(ks) : ks[i] = group

\* Tag i comes before Tag j in registry order: an earlier group, or the same
\* group and a smaller rule name
RegistryOrder(i, j) ==
  LET a == tagSet.tags[i]
      b == tagSet.tags[j]
  IN  \/ GroupPosition(a.group) < GroupPosition(b.group)
      \/ a.group = b.group /\ LexBefore(a.ruleName, b.ruleName)

\* C16: classify produces exactly one Tag for each registered rule of the
\* target whose pattern matches the original text, none for a rule that does
\* not match and none for anything else; the Tags come in registry iteration
\* order (group order, then ascending rule name); whether a rule matched is
\* decided by its own pattern on the whole text, whatever the other rules did
C16_OneTagPerMatchInOrder ==
  (pc = "done" /\ tagSet # NoCall) =>
    /\ \A rule \in RuleSet :
         Cardinality(TagsOfRule(rule)) = IF MatchOf(rule).matched THEN 1 ELSE 0
    /\ \A i \in 1..Len(tagSet.tags) :
         \E rule \in RuleSet : i \in TagsOfRule(rule)
    /\ \A i, j \in 1..Len(tagSet.tags) : i < j => RegistryOrder(i, j)

\* two rules of one group matched one text and their Tags come with the
\* smaller name first, while another rule of the target did not match
C16_Witness ==
  /\ pc = "done" /\ tagSet # NoCall
  /\ \E i, j \in 1..Len(tagSet.tags) :
       /\ i < j
       /\ tagSet.tags[i].group = tagSet.tags[j].group
       /\ LexBefore(tagSet.tags[i].ruleName, tagSet.tags[j].ruleName)
  /\ \E rule \in RuleSet : ~MatchOf(rule).matched

\* the Tags of the last classification for exactly the selected
\* (target, group, ruleName) of the filter
SelectedTags ==
  {i \in 1..Len(tagSet.tags) :
     /\ tagSet.tags[i].target = verdict.target
     /\ tagSet.tags[i].group = verdict.group
     /\ tagSet.tags[i].ruleName = verdict.ruleName}

\* C17: evaluateFilter answers false whenever the tag set has no Tag for
\* exactly the selected (target, group, ruleName), and answers true for a
\* filter without constraints whenever that Tag is there
C17_TagPresence ==
  verdict.asked =>
    /\ SelectedTags = {} => ~verdict.result
    /\ (SelectedTags # {} /\ verdict.constraints = <<>>) => verdict.result

\* a filter without constraints answered false although the ability has a Tag
\* of the selected rule name and group, for another target
C17_Witness ==
  /\ verdict.asked /\ verdict.constraints = <<>> /\ ~verdict.result
  /\ \E i \in 1..Len(tagSet.tags) :
       /\ tagSet.tags[i].group = verdict.group
       /\ tagSet.tags[i].ruleName = verdict.ruleName
       /\ tagSet.tags[i].target # verdict.target

\* the finite number n (in tenths) or +infinity against the value v (in
\* tenths) of a query
Satisfies(n, comparator, v) ==
  IF n.inf THEN comparator \in {">", ">="}
  ELSE CASE comparator = "<" -> n.v < v
         [] comparator = "<=" -> n.v <= v
         [] comparator = "=" -> n.v = v
         [] comparator = ">=" -> n.v >= v
         [] comparator = ">" -> n.v > v

\* the filter asked one numeric constraint of a Tag that is there
NumericQuery ==
  /\ verdict.asked /\ SelectedTags # {}
  /\ Len(verdict.constraints) = 1
  /\ verdict.constraints[1].kind = "number"

\* the selected rule read nothing but the unknown placeholder for the number
\* the constraint is about
UnknownNumber ==
  \E rule \in RuleSet :
    /\ rule.name = verdict.ruleName /\ rule.group = verdict.group
    /\ \E k \in NumberSubs(rule) :
         LET sub == SubmatchersOf(rule)[k]
             cap == CapturingGroups(sub, MatchOf(rule).groups)
         IN  /\ sub.description = verdict.constraints[1].description
             /\ Len(cap) = 1
             /\ MatchOf(rule).groups[cap[1]].text = <<Unknown>>

\* C18: a numeric constraint (comparator, value) is satisfied exactly when
\* the Tag's normalized number satisfies the comparator against the value;
\* so a Tag whose number was the unknown placeholder (0 once normalized)
\* satisfies "< 1" and "= 0" and fails "= N", ">= N" and "> N" for N > 0
C18_NumericConstraint ==
  NumericQuery =>
    LET c == verdict.constraints[1]
    IN  \A i \in SelectedTags :
          LET values == tagSet.tags[i].submatcherValues
          IN  /\ ~Has(values, c.description) => ~verdict.result
              /\ (Has(values, c.description)
                    /\ Get(values, c.description).low = Get(values, c.description).high) =>
                   verdict.result = Satisfies(Get(values, c.description).low,
                                              c.comparator, c.value.v)
              /\ UnknownNumber =>
                   /\ Has(values, c.description)
                   /\ verdict.result = Satisfies(Finite(0), c.comparator, c.value.v)
                   /\ (c.value.v > 0 /\ c.comparator \in {"=", ">=", ">"}) => ~verdict.result
                   /\ (c.value.v = Tenths /\ c.comparator = "<") => verdict.result
                   /\ (c.value.v = 0 /\ c.comparator = "=") => verdict.result

\* the number of the Tag was "?" and the query "= 1" failed on it
C18_Witness ==
  /\ NumericQuery /\ UnknownNumber
  /\ verdict.constraints[1].comparator = "="
  /\ verdict.constraints[1].value = Finite(Tenths)
  /\ ~verdict.result


\* ------------------------------------------------------- the script load
\* some pattern of the table fails to compile
AnyMalformed ==
  \E i \in 1..Len(SpecsOf(matchers)) : ~SpecsOf(matchers)[i].regex.valid

\* the rules window.matchers holds, over all targets and groups
RulesHeld(reg) ==
  Sum([ti \in 1..Len(reg) |->
         Sum([gi \in 1..Len(reg[ti].value) |-> Len(reg[ti].value[gi].value)])])

\* C19: queries are never served from a partially built registry: if a
\* pattern of some rule spec fails to compile, the construction fails as a
\* whole (the script ends in failure, no build step runs) and no registry
\* holding rules becomes visible; a lookup that finds a target finds it in a
\* registry the build completed over a table without malformed pattern
C19_NoPartialRegistry ==
  /\ AnyMalformed =>
       /\ pc \in {"parse", "table", "failed"}
       /\ windowMatchers = Unassigned
       /\ RulesHeld(windowMatchers) = 0
       /\ assigned = 0
  /\ pc = "failed" => AnyMalformed
  /\ lookedUp # NoLookup =>
       IF AnyMalformed
         THEN pc = "failed" /\ ~lookedUp.defined /\ lookedUp.threw
         ELSE pc = "done" /\ builds = 1 /\ lookedUp = Lookup(windowMatchers, lookedUp.target)

\* the second rule spec of the table has a pattern that new RegExp rejects,
\* the first one has targets and is not left out; the script failed and a
\* reader looked a target up
C19_Witness ==
  /\ pc = "failed"
  /\ Len(SpecsOf(matchers)) = 2
  /\ SpecsOf(matchers)[1].regex.valid
  /\ ~IsSkipped(SpecsOf(matchers)[1])
  /\ SpecsOf(matchers)[1].targets # <<>>
  /\ ~SpecsOf(matchers)[2].regex.valid /\ ~SpecsOf(matchers)[2].regex.literal
  /\ lookedUp # NoLookup /\ lookedUp.target = "captain"


\* ------------------------------------------------ the submatcher generators
\* the entries of the table a generator walks: types, classes, the given
\* orbs, the rows and columns; the universal option stands alone
TableEntries(call) ==
  CASE call.fn = "createTypesSubmatchers" -> TypesLiteral
    [] call.fn = "createClassesSubmatchers" -> ClassesLiteral
    [] call.fn = "createOrbsSubmatchers" -> call.args[3][1]
    [] call.fn = "createPositionsSubmatchers" -> rows \o columns
    [] call.fn = "createUniversalSubmatcher" -> << "all" >>

\* the names of the options createPositionsSubmatchers is to return for its
\* arguments: rows and columns (or the six cells), then the three others,
\* each unless excluded
PositionNames(args) ==
  LET excluded == IF args[3] = <<>> THEN <<>> ELSE args[3][1]
      places == IF args[4] = <<>> \/ args[4][1]
                  THEN << "Top", "Middle", "Bottom", "Left", "Right" >>
                  ELSE << "cell", "cell", "cell", "cell", "cell", "cell" >>
  IN  SelectSeq(places \o << "Adjacent", "Selected", "Self" >>,
                LAMBDA n : \A i \in 1..Len(excluded) : excluded[i] # n)

\* the number of options a call is to return
OptionCount(call) ==
  IF call.fn = "createPositionsSubmatchers" THEN Len(PositionNames(call.args))
  ELSE Len(TableEntries(call))

\* every option of the result is an Option bound to the given groups array
BoundToGiven(call) ==
  \A k \in 1..Len(arrays[call.result]) :
    /\ arrays[call.result][k].type = "option"
    /\ arrays[call.result][k].groups = call.groups
    /\ call.returned[k].groups = call.given

\* no hidden state: the result is a new array, it holds what it held when the
\* call returned, the tables and the given groups are as they were, and two
\* calls of one generator with equal arguments returned equal results
Pure ==
  /\ types = TypesLiteral /\ classes = ClassesLiteral
  /\ \A i \in 1..Len(calls) :
       /\ Contents(arrays, arrays[calls[i].result]) = calls[i].returned
       /\ arrays[calls[i].groups] = calls[i].given
       /\ \A j \in 1..Len(calls) :
            /\ calls[i].result # calls[j].groups
            /\ i # j => calls[i].result # calls[j].result
            /\ (calls[i].fn = calls[j].fn /\ calls[i].args = calls[j].args
                  /\ calls[i].given = calls[j].given) =>
                 calls[i].returned = calls[j].returned

\* C20 as stated: every call of the five generators returns a new list with
\* one Option per table entry, in table order, all bound to the given groups;
\* the result depends only on the arguments; no call changes the tables or the
\* result of another call
C20_OnePerTableEntry ==
  /\ Pure
  /\ \A i \in 1..Len(calls) :
       /\ BoundToGiven(calls[i])
       /\ Len(arrays[calls[i].result]) = Len(TableEntries(calls[i]))

\* C20: every call returns a new list of Options bound to the given groups:
\* one per entry of types, classes or the given orbs, in table order; for
\* createPositionsSubmatchers one per row and column not excluded (or the six
\* cells), then Adjacent, Selected and Self unless excluded; one for
\* createUniversalSubmatcher; the result depends only on the arguments; no
\* call changes the tables, the given groups or the result of another call
C20_PureGenerators ==
  /\ Pure
  /\ \A i \in 1..Len(calls) :
       LET call == calls[i]
           result == arrays[call.result]
       IN  /\ BoundToGiven(call)
           /\ Len(result) = OptionCount(call)
           /\ call.fn = "createTypesSubmatchers" =>
                \A k \in 1..Len(result) :
                  /\ result[k].description = Get(typeKoMap, TypesLiteral[k])
                  /\ result[k].regex.flags = "i"
           /\ call.fn = "createClassesSubmatchers" =>
                \A k \in 1..Len(result) :
                  result[k].description = Get(classKoMap, ClassesLiteral[k])
           /\ call.fn = "createOrbsSubmatchers" =>
                \A k \in 1..Len(result) :
                  result[k].description \in
                    {MapGet(orbKoMap, call.args[3][1][k]), call.args[3][1][k]}
           /\ call.fn = "createPositionsSubmatchers" =>
                \A k \in 1..Len(result) :
                  LET n == PositionNames(call.args)[k]
                  IN  n # "cell" =>
                        result[k].description =
                          MapGet(rowKoMap \o colKoMap
                                   \o [t \in 1..Len(TrailingOptions) |->
                                         [key |-> TrailingOptions[t][1],
                                          value |-> TrailingOptions[t][2]]], n)

\* two calls were given the same groups array, the second one of
\* createPositionsSubmatchers with excluded names, and returned different lists
C20_Witness ==
  /\ Len(calls) = 2
  /\ calls[1].groups = calls[2].groups
  /\ calls[1].fn = "createTypesSubmatchers"
  /\ calls[2].fn = "createPositionsSubmatchers"
  /\ calls[2].args[3] # <<>>
  /\ Len(arrays[calls[2].result]) = 6


\* ------------------------------------------------ ids in option patterns
\* the texts the generated patterns are tried on
ProbeTexts ==
  { "", "all", "x", "[STR]", "[str] orbs", "[SXR]", "[S.R]", "[G]", "[BLOCK]",
    "a Free Spirit", "top row", "Left column" }

\* the text has the literal somewhere, letters compared without case
ContainsLiteral(text, lit) ==
  \E p \in 1..(Len(text) - Len(lit) + 1) :
    \A j \in 1..Len(lit) :
      ToLower(CharAt(text, p + j - 1)) = ToLower(CharAt(lit, j))

\* the text of the taxonomy entry option k of a call was made for, as the
\* pattern is to find it; "" for an option that stands for no entry
EntryLiteral(call, k) ==
  CASE call.fn = "createTypesSubmatchers" -> "[" \o TypesLiteral[k] \o "]"
    [] call.fn = "createClassesSubmatchers" -> ClassesLiteral[k]
    [] call.fn = "createOrbsSubmatchers" -> "[" \o call.args[3][1][k] \o "]"
    [] call.fn = "createPositionsSubmatchers" ->
         IF PositionNames(call.args)[k] \in {"Top", "Middle", "Bottom", "Left", "Right"}
           THEN PositionNames(call.args)[k] ELSE ""
    [] call.fn = "createUniversalSubmatcher" -> ""

\* the universal alternative of a call's patterns matches the text
UniversalMatches(call, text) ==
  /\ Default(call.args[1], TRUE)
  /\ RegExpTest(NewRegExp(Default(call.args[2],
                   IF call.fn = "createTypesSubmatchers" THEN "all|type"
                   ELSE "uBAA8uB450"), "i"), text)

RestingIndex == [id \in EngineRegExpIds |-> 0]

\* what the readers got is what the registry of the completed build gives
\* when asked alone
ReadFromCompleteRegistry ==
  /\ pc = "done" => windowMatchers = firstRegistry
  /\ tagSet # NoCall =>
       tagSet.tags = classify(firstRegistry, tagSet.target, tagSet.text, RestingIndex).tags
  /\ lookedUp # NoLookup => lookedUp = Lookup(firstRegistry, lookedUp.target)

\* a step of a reader (a lookup or a classification) is taken with a completed
\* build and leaves the registry, the rule-spec table and the RegExp objects
\* of the rules as they were
ReaderLeavesRegistry ==
  (tagSet' # tagSet \/ (lookedUp' # lookedUp /\ lookedUp' # NoLookup)) =>
    /\ pc = "done" /\ pc' = "done"
    /\ windowMatchers = firstRegistry
    /\ windowMatchers' = windowMatchers
    /\ matchers' = matchers
    /\ lastIndex' = lastIndex

DeclaredOrder ==
  << "captain", "special", "superSpecialCriteria", "superSpecial", "swap",
     "sailor", "limit", "potential", "support" >>

\* C23: the targets of the registry enumerate in the declared order captain,
\* special, superSpecialCriteria, superSpecial, swap, sailor, limit,
\* potential, support, whatever the order in which the rule specs name
\* targets; a target only a rule spec names comes after these nine
C23_TargetOrder ==
  LET ks == Keys(windowMatchers)
  IN  /\ Len(ks) >= Len(DeclaredOrder)
      /\ SubSeq(ks, 1, Len(DeclaredOrder)) = DeclaredOrder
      /\ \A i \in (Len(DeclaredOrder) + 1)..Len(ks) :
           /\ \A j \in 1..Len(DeclaredOrder) : ks[i] # DeclaredOrder[j]
           /\ \E k \in 1..Len(SpecsOf(matchers)) :
                /\ ~IsSkipped(SpecsOf(matchers)[k])
                /\ \E j \in 1..Len(SpecsOf(matchers)[k].targets) :
                     SpecsOf(matchers)[k].targets[j] = ks[i]

\* the first rule spec names only a target that is not declared, a later one
\* names captain; the build is complete and the undeclared target is the tenth
C23_Witness ==
  /\ pc = "done"
  /\ Len(SpecsOf(matchers)) = 2
  /\ SpecsOf(matchers)[1].targets = << "rumble" >>
  /\ SpecsOf(matchers)[2].targets = << "captain", "superSpecial" >>
  /\ Len(Keys(windowMatchers)) = 10
  /\ Keys(windowMatchers)[10] = "rumble"
  /\ Get(windowMatchers, "captain") # <<>>


\* ------------------------------------------------- registry well-formedness
\* C24: at every step of the build and afterwards, every rule stored at
\* registry[t][g][n] has target t, group g and name n, and every group key
\* under a target holds at least one rule (no group is made for a target
\* whose specs of that group are all legacy)
C24_WellFormed ==
  \A ti \in 1..Len(windowMatchers) :
    \A gi \in 1..Len(windowMatchers[ti].value) :
      LET rules == windowMatchers[ti].value[gi].value
      IN  /\ rules # <<>>
          /\ \A ni \in 1..Len(rules) :
               /\ rules[ni].value.target = windowMatchers[ti].key
               /\ rules[ni].value.group = windowMatchers[ti].value[gi].key
               /\ rules[ni].value.name = rules[ni].key

\* the build is complete; captain has a rule of the first group, stored under
\* a name made from a placeholder, and no key for the second group, whose only
\* spec names captain and is legacy
C24_Witness ==
  /\ pc = "done"
  /\ Len(matchers) = 2 /\ Len(matchers[1].value) = 1 /\ Len(matchers[2].value) = 1
  /\ ContainsPlaceholder(matchers[1].value[1].name)
  /\ matchers[1].value[1].targets = << "captain" >>
  /\ IsSkipped(matchers[2].value[1])
  /\ matchers[2].value[1].targets = << "captain" >>
  /\ Keys(Get(windowMatchers, "captain")) = << matchers[1].key >>


\* the contact page: the form is filled in and submitted, requests end and
\* timers fire, in any order
SpecContact == InitWith(<<>>) /\ [][NextContact]_vars

\* a timer that was started fires
SpecContactLive ==
  SpecContact /\ \A r \in 1..MaxRequests : WF_vars(HideMessages(r))

\* the picker is opened and a unit picked, again and again, after earlier
\* visits left a list in the storage
SpecPicker ==
  (\E stored \in StoredSamples : InitStored(<<>>, <<>>, stored))
  /\ [][NextPicker]_vars


\* ------------------------------------------ the arrays of the copies, used
\* the registry with the rule at `key` replaced
PutEntry(reg, key, rule) ==
  Put(reg, key[1],
      Put(Get(reg, key[1]), key[2],
          Put(Get(Get(reg, key[1]), key[2]), key[3], rule)))

\* the rules of the registry whose submatchers field holds `array`
HoldersOf(array) == {k \in DOMAIN copyArrays : copyArrays[k] = array}

RECURSIVE PutEntries(_, _, _)
PutEntries(reg, keys, submatchers) ==
  IF keys = {} THEN reg
  ELSE LET k == CHOOSE x \in keys : TRUE
       IN  PutEntries(PutEntry(reg, k, [Entry(reg, k) EXCEPT !.submatchers = submatchers]),
                      keys \ {k}, submatchers)

\* the table with `submatchers` in every rule spec whose array is `array`
WithArray(ms, array, submatchers) ==
  [gi \in 1..Len(ms) |->
     [ms[gi] EXCEPT !.value =
        [mi \in 1..Len(ms[gi].value) |->
           IF SpecArray(gi, mi) = array /\ "submatchers" \in DOMAIN ms[gi].value[mi]
             THEN [ms[gi].value[mi] EXCEPT !.submatchers = submatchers]
             ELSE ms[gi].value[mi]]]]

\* a reader of the registry reorders the submatchers of a rule in place:
\* rule.submatchers.reverse(). Whatever holds the same array sees it.
ReorderSubmatchers ==
  /\ pc = "done"
  /\ \E k \in DOMAIN copyArrays :
       LET array == copyArrays[k]
           reversed == Reverse(Entry(windowMatchers, k).submatchers)
       IN  /\ Len(reversed) >= 2
           /\ windowMatchers' = PutEntries(windowMatchers, HoldersOf(array), reversed)
           /\ matchers' = WithArray(matchers, array, reversed)
  /\ UNCHANGED << consoleErrors, pc, pos, assigned, builds, firstRegistry,
                  lookedUp, addedGroup, engineVars >>

\* a reader gives a rule a submatchers array of its own making:
\* rule.submatchers = []. Only that rule object has the field.
ReplaceSubmatchers ==
  /\ pc = "done"
  /\ \E k \in DOMAIN copyArrays :
       /\ Entry(windowMatchers, k).submatchers # <<>>
       /\ windowMatchers' =
            PutEntry(windowMatchers, k, [Entry(windowMatchers, k) EXCEPT !.submatchers = <<>>])
       /\ copyArrays' = [copyArrays EXCEPT ![k] = << "reader", k >>]
  /\ UNCHANGED << matchers, consoleErrors, pc, pos, assigned, builds, firstRegistry,
                  lookedUp, addedGroup, readerVars >>

NextCopies ==
  \/ SkipOld
  \/ Register
  \/ EndLoops
  \/ SortGroup
  \/ EndSort
  \/ ReorderSubmatchers
  \/ ReplaceSubmatchers

\* the registry is built, then its readers change the submatchers of rules
SpecCopies == Init /\ [][NextCopies]_vars

\* the arrays of the rule specs of the table
SpecArrays ==
  UNION { {SpecArray(gi, mi) : mi \in 1..Len(matchers[gi].value)} :
            gi \in 1..Len(matchers) }

\* a pass of the build loops leaves the table as it was, and the rule it
\* stores has the submatchers of its spec in an array no spec and no other
\* rule has
RegistrationKeepsSpecs ==
  pc = "build" =>
    /\ matchers' = matchers
    /\ \A k \in DOMAIN copyArrays' :
         /\ copyArrays'[k] \notin SpecArrays
         /\ \A k2 \in DOMAIN copyArrays' : copyArrays'[k2] = copyArrays'[k] => k2 = k
    /\ (assigned' = assigned + 1 /\ "submatchers" \in DOMAIN CurMatcher) =>
         Entry(windowMatchers', << CurTarget, CurGroup, newName(CurMatcher.name, CurTarget) >>).submatchers
           = CurMatcher.submatchers

\* what a reader does to the submatchers of a rule leaves the table and the
\* rules of the other targets as they were
EditStaysLocal ==
  (pc = "done" /\ pc' = "done") =>
    /\ matchers' = matchers
    /\ \A e1, e2 \in EntryKeys(windowMatchers) :
         (/\ Entry(windowMatchers', e1) # Entry(windowMatchers, e1)
          /\ Entry(windowMatchers', e2) # Entry(windowMatchers, e2)) => e1[1] = e2[1]

EnteredFields(sc) ==
  [name |-> sc.name, email |-> sc.email, subjectList |-> sc.subjectList,
   url |-> sc.url, comments |-> sc.comments]

AllNull ==
  [name |-> Null, email |-> Null, subjectList |-> Null, url |-> Null,
   comments |-> Null]

\* the request r is over in this step
Completes(r) ==
  /\ r \in 1..Len(requests)
  /\ requests[r].state = "pending"
  /\ requests'[r].state = "completed"

\* a call of submit with an invalid form made no request
InvalidMakesNoRequest ==
  (lastSubmit'.called /\ lastSubmit'.invalid /\ lastSubmit' # lastSubmit) =>
    /\ requests' = requests
    /\ scope'.submitted = Boolean(TRUE)

\* a field becomes null, or submitted false, only in the step in which a
\* request is over with the body 'OK' under a success status; all five
\* fields are null and submitted is false then
ResetOnlyOnOK ==
  ((\E f \in DOMAIN AllNull : scope'[f] = Null /\ scope[f] # Null)
   \/ (scope'.submitted = Boolean(FALSE) /\ scope.submitted # Boolean(FALSE))) =>
    \E r \in 1..Len(requests) :
      /\ Completes(r)
      /\ requests'[r].status = "success"
      /\ requests'[r].response = String("OK")
      /\ EnteredFields(scope') = AllNull
      /\ scope'.submitted = Boolean(FALSE)

\* a request that is over with another body, or with an error, leaves the
\* fields and submitted as they were
OthersKeepFields ==
  \A r \in 1..Len(requests) :
    (Completes(r) /\ ~(requests'[r].status = "success"
                       /\ requests'[r].response = String("OK"))) =>
      /\ EnteredFields(scope') = EnteredFields(scope)
      /\ scope'.submitted = scope.submitted

\* a request that is over with the body 'OK' resets the form
OKResets ==
  \A r \in 1..Len(requests) :
    (Completes(r) /\ requests'[r].status = "success"
                  /\ requests'[r].response = String("OK")) =>
      /\ EnteredFields(scope') = AllNull
      /\ scope'.submitted = Boolean(FALSE)

\* C26: submit on an invalid form issues no request; the entered fields
\* (name, email, subjectList, url, comments) are set to null and submitted to
\* false only after a request succeeds with the body 'OK'; after a non-OK
\* response or a network error the fields are unchanged and submitted stays
\* as it was, true
C26_FormOutcome ==
  [][InvalidMakesNoRequest /\ ResetOnlyOnOK /\ OthersKeepFields /\ OKResets]_vars

\* the form was filled in and submitted twice; the first request ended in an
\* error and left the fields and submitted = true, the second ended with 'OK'
\* and reset them; the last submit was of an invalid form
C26_Witness ==
  /\ Len(requests) = 2
  /\ requests[1].state = "completed" /\ requests[1].response = Null
  /\ requests[1].data.From = String("Nami")
  /\ requests[2].state = "completed" /\ requests[2].response = String("OK")
  /\ EnteredFields(scope) = AllNull
  /\ scope.submitted = Boolean(TRUE)
  /\ lastSubmit.invalid


\* a status message
StatusMessages == { SentMessage, ProcessingMessage, NetworkMessage }

\* the step in which a request is over sets a status message and starts the
\* timer of that request
CompletionShowsMessage ==
  \A r \in 1..Len(requests) :
    Completes(r) =>
      /\ scope'.messages \in StatusMessages
      /\ requests'[r].timer = "started"

\* the step in which a timer fires leaves no message
TimerHides ==
  \A r \in 1..Len(requests) :
    (requests[r].timer = "started" /\ requests'[r].timer = "fired") =>
      scope'.messages = Null

\* the timer of the request r: "none", "started" or "fired"
TimerOf(r) == IF r \in 1..Len(requests) THEN requests[r].timer ELSE "none"

\* C27: when the request of a valid submit is over (with 'OK', with another
\* body or with an error) a status message is set, and it is hidden again
\* in the end: messages is null once the timer started at that moment fires
C27_MessageShownThenHidden ==
  /\ [][CompletionShowsMessage /\ TimerHides]_vars
  /\ \A r \in 1..MaxRequests :
       (TimerOf(r) = "started") ~> (TimerOf(r) = "fired" /\ scope.messages = Null)

\* the timers of an 'OK' answer and of an error have fired and no message is
\* shown
C27_Witness ==
  /\ Len(requests) = 2
  /\ requests[1].timer = "fired" /\ requests[1].status = "success"
  /\ requests[1].response = String("OK")
  /\ requests[2].timer = "fired" /\ requests[2].status = "error"
  /\ scope.messages = Null


\* C28: the status message set when one request is over is hidden only by
\* the timer started at that moment: with overlapping submissions the timer
\* of the earlier request does not clear the message of the later one
C28_HiddenByOwnTimerOnly ==
  [][\A r \in 1..Len(requests) :
       (/\ requests[r].timer = "started" /\ requests'[r].timer = "fired"
        /\ scope.messages \in StatusMessages)
         => messagesFrom = r]_vars


\* C29: in every reachable state $scope.progress is the promise tracker made
\* when the controller was initialised, so every submit of a valid form
\* gives its request to that tracker, also after a request ended in a
\* network error
C29_ProgressIsTracker ==
  /\ scope.progress = Tracker
  /\ (lastSubmit.called /\ ~lastSubmit.invalid) =>
       (lastSubmit.request \in tracked /\ ~lastSubmit.threw)


\* ------------------------------------------- the recently picked units, claims
NoDuplicates(list) ==
  \A i, j \in 1..Len(list) : list[i] = list[j] => i = j

\* the units of a list other than u, in the order of the list
Others(list, u) == SelectSeq(list, LAMBDA x : x # u)

\* C30: after updateRecent(u) the list stored under 'slotRecentUnits' has u
\* as its first element and at most 16 entries, has no duplicates if the
\* previous list had none, and keeps the other units in the relative order
\* they had (the last ones are dropped when the list is full)
C30_RecentList ==
  pickedUnit # NoUnit =>
    LET kept == Others(storage, pickedUnit)
        before == Others(recents, pickedUnit)
    IN  /\ storage # <<>> /\ Head(storage) = pickedUnit
        /\ Len(storage) <= MaxRecent
        /\ NoDuplicates(recents) => NoDuplicates(storage)
        /\ Len(kept) <= Len(before) /\ kept = SubSeq(before, 1, Len(kept))
        /\ Len(storage) < MaxRecent => kept = before

\* a unit that was in the middle of a full list was picked and is first now,
\* and before that a unit that was not in the full list was picked, which
\* dropped the last unit
C30_Witness ==
  /\ pickedUnit = 1
  /\ Len(recents) = MaxRecent /\ NoDuplicates(recents)
  /\ Head(recents) = 17
  /\ indexOf(recents, 1) > 1
  /\ Len(storage) = MaxRecent /\ Head(storage) = 1 /\ storage[2] = 17

====
